---- MODULE Spec2Model ----
(***************************************************************************)
(* Model of git-issue's transactional write layer and issue lookup         *)
(* (src/src/source.rs) and of the mutating commands built on them          *)
(* (src/src/bin/git-issue-*.rs).                                           *)
(*                                                                         *)
(* Text is a sequence of one-character strings.  A tree (a commit's tree,  *)
(* the index, the working tree) is a function from the paths that exist to *)
(* the text of the file; a path is <<issue id, file name>>, issue id 0     *)
(* standing for files that do not belong to the issue tracker.  A commit   *)
(* hash is the position of the commit in the object store `commits`.       *)
(***************************************************************************)
EXTENDS Integers, Sequences, FiniteSets, TLC

VARIABLES
    repo,          \* the git repository: object store, branch head, index, working tree, stash list
    transaction,   \* DataSource.transaction: <<>> is None, <<t>> is Some(t)
    last,          \* the last library call made on the DataSource and what it returned
    txn,           \* history: what happened since the open transaction was started
    expected,      \* history: the tag set obtained by applying the tag operations in order
    faulty,        \* history: how many calls were made to fail so far
    cmd,           \* the last command run: its arguments, the library calls it made, its result
    issues_dir     \* DataSource.issues_dir: the directories below .issues/issues

vars == <<repo, transaction, last, txn, expected, faulty, cmd, issues_dir>>

----------------------------------------------------------------------------
(* Bounds *)

MaxCommits == 8      \* commits the object store may hold
MaxDescLen == 3      \* longest description text enumerated character by character
MaxFaulty == 1       \* calls that may be made to fail in one run
MaxFault == 4        \* a library call may be made to fail at its 1st..MaxFault-th fallible step
MaxCmdFault == 18    \* a command may be made to fail at its 1st..MaxCmdFault-th fallible step
MaxIssues == 2       \* issue directories find_issue may look through
MaxNeedle == 4       \* longest needle find_issue is called with

MaxTags == 2         \* longest list of tags create_issue is called with
MaxIdLen == 5        \* longest identifier Id::path is called with

----------------------------------------------------------------------------
(* Text: str::trim_end, str::trim, str::lines, join, sort, dedup *)

\* the characters the model uses, in byte order
ByteOrder == <<"\t", "\n", "\r", " ", "a", "b", "c", "d", "e", "f", "l", "m", "n", "o", "p", "q", "s">>

Ord(c) == CHOOSE i \in 1..Len(ByteOrder) : ByteOrder[i] = c

IsWhitespace(c) == c \in {"\t", "\n", "\r", " "}

RECURSIVE TrimEnd(_)
TrimEnd(s) ==
    IF s = <<>> THEN <<>>
    ELSE IF IsWhitespace(s[Len(s)]) THEN TrimEnd(SubSeq(s, 1, Len(s) - 1))
    ELSE s

RECURSIVE TrimStart(_)
TrimStart(s) ==
    IF s = <<>> THEN <<>>
    ELSE IF IsWhitespace(Head(s)) THEN TrimStart(Tail(s))
    ELSE s

Trim(s) == TrimStart(TrimEnd(s))

\* a line loses the carriage return that precedes its line feed
StripCR(line) ==
    IF line # <<>> /\ line[Len(line)] = "\r" THEN SubSeq(line, 1, Len(line) - 1) ELSE line

\* str::lines: split at "\n" or "\r\n"; the final line needs no terminator and
\* an empty final line is not a line
RECURSIVE LinesFrom(_, _)
LinesFrom(s, cur) ==
    IF s = <<>> THEN (IF cur = <<>> THEN <<>> ELSE <<cur>>)
    ELSE IF Head(s) = "\n" THEN <<StripCR(cur)>> \o LinesFrom(Tail(s), <<>>)
    ELSE LinesFrom(Tail(s), Append(cur, Head(s)))

Lines(s) == LinesFrom(s, <<>>)

RECURSIVE Join(_, _)
Join(ls, sep) ==
    IF ls = <<>> THEN <<>>
    ELSE IF Len(ls) = 1 THEN ls[1]
    ELSE ls[1] \o sep \o Join(Tail(ls), sep)

\* byte-wise lexicographic order of str
RECURSIVE StrLess(_, _)
StrLess(a, b) ==
    IF b = <<>> THEN FALSE
    ELSE IF a = <<>> THEN TRUE
    ELSE IF Head(a) = Head(b) THEN StrLess(Tail(a), Tail(b))
    ELSE Ord(Head(a)) < Ord(Head(b))

RECURSIVE InsertSorted(_, _)
InsertSorted(x, s) ==
    IF s = <<>> THEN <<x>>
    ELSE IF StrLess(s[1], x) THEN <<s[1]>> \o InsertSorted(x, Tail(s))
    ELSE <<x>> \o s

\* slice::sort_unstable
RECURSIVE Sort(_)
Sort(s) == IF s = <<>> THEN <<>> ELSE InsertSorted(Head(s), Sort(Tail(s)))

\* Vec::dedup: drops an element equal to the one before it
RECURSIVE Dedup(_)
Dedup(s) ==
    IF Len(s) < 2 THEN s
    ELSE IF s[1] = s[2] THEN Dedup(Tail(s))
    ELSE <<s[1]>> \o Dedup(Tail(s))

\* Vec::retain(|t| *t != tag)
RECURSIVE Retain(_, _)
Retain(s, tag) ==
    IF s = <<>> THEN <<>>
    ELSE IF Head(s) # tag THEN <<Head(s)>> \o Retain(Tail(s), tag)
    ELSE Retain(Tail(s), tag)

Contains(s, x) == \E i \in 1..Len(s) : s[i] = x

Range(s) == {s[i] : i \in 1..Len(s)}

----------------------------------------------------------------------------
(* Trees *)

EmptyTree == [p \in {} |-> <<>>]

Put(t, p, text) == [q \in DOMAIN t \cup {p} |-> IF q = p THEN text ELSE t[q]]

Del(t, p) == [q \in DOMAIN t \ {p} |-> t[q]]

\* the file at p in t, as a set: empty when the file does not exist
At(t, p) == IF p \in DOMAIN t THEN {t[p]} ELSE {}

----------------------------------------------------------------------------
(* The version-control primitives the DataSource calls (crate git_wrapper).  *)
(* A world w is the repository plus `fuel`: the number of fallible steps     *)
(* left before one fails (0: none fails).  Every primitive that can fail     *)
(* takes one unit of fuel and fails, changing nothing, when it takes the     *)
(* last one.                                                                 *)

Fails(w) == w.fuel = 1

Tick(w) == [w EXCEPT !.fuel = IF @ > 0 THEN @ - 1 ELSE 0]

World(r, fuel) ==
    [commits |-> r.commits, head |-> r.head, index |-> r.index, wt |-> r.wt,
     stash |-> r.stash, fuel |-> fuel]

Repo(w) ==
    [commits |-> w.commits, head |-> w.head, index |-> w.index, wt |-> w.wt,
     stash |-> w.stash]

TreeOf(w, sha) == w.commits[sha].tree

\* the tree of HEAD; head 0 is a branch without a commit yet, where HEAD resolves to nothing
HeadTree(w) == IF w.head = 0 THEN EmptyTree ELSE TreeOf(w, w.head)

\* every commit reachable from sha, sha included; none from 0, which names no commit
RECURSIVE Ancestors(_, _)
Ancestors(commits, sha) ==
    IF sha = 0 THEN {}
    ELSE {sha} \cup UNION {Ancestors(commits, commits[sha].parents[i]) :
                               i \in 1..Len(commits[sha].parents)}

\* Repository::head
head(w) == w.head

\* Repository::is_clean: nothing staged, nothing modified, nothing untracked
is_clean(w) == w.index = HeadTree(w) /\ w.wt = w.index

\* Repository::commit_extended(message, allow_empty, no_verify): commits the index
commit_extended(w, allow_empty) ==
    IF Fails(w) \/ (~allow_empty /\ w.index = HeadTree(w))
    THEN [w |-> Tick(w), ok |-> FALSE]
    ELSE [w |-> [Tick(w) EXCEPT
                    !.commits = Append(@, [parents |-> IF w.head = 0 THEN <<>> ELSE <<w.head>>,
                                           tree |-> w.index]),
                    !.head = Len(w.commits) + 1],
          ok |-> TRUE]

\* Repository::stage(path): git add of one path (a deleted file is staged as deleted)
stage(w, p) ==
    IF Fails(w) \/ (p \notin DOMAIN w.wt /\ p \notin DOMAIN w.index)
    THEN [w |-> Tick(w), ok |-> FALSE]
    ELSE [w |-> [Tick(w) EXCEPT
                    !.index = IF p \in DOMAIN w.wt THEN Put(@, p, w.wt[p]) ELSE Del(@, p)],
          ok |-> TRUE]

\* Repository::stash_almost_all(message): git stash with the untracked files; git refuses
\* to stash before the first commit
stash_almost_all(w) ==
    IF Fails(w) \/ w.head = 0
    THEN [w |-> Tick(w), ok |-> FALSE]
    ELSE [w |-> [Tick(w) EXCEPT
                    !.stash = <<[base |-> HeadTree(w), wt |-> w.wt]>> \o @,
                    !.index = HeadTree(w),
                    !.wt = HeadTree(w)],
          ok |-> TRUE]

\* the paths a stash entry changes
StashPaths(e) == {p \in DOMAIN e.wt \cup DOMAIN e.base : At(e.wt, p) # At(e.base, p)}

\* Repository::stash_pop: applies the newest entry to the working tree and drops it;
\* fails, keeping the entry, when a file it changes is no longer as it was stashed from
stash_pop(w) ==
    IF Fails(w) \/ w.stash = <<>>
    THEN [w |-> Tick(w), ok |-> FALSE]
    ELSE LET e == Head(w.stash)
             changed == StashPaths(e)
         IN  IF \E p \in changed : At(w.wt, p) # At(e.base, p)
             THEN [w |-> Tick(w), ok |-> FALSE]
             ELSE [w |-> [Tick(w) EXCEPT
                             !.stash = Tail(@),
                             !.wt = [p \in (DOMAIN @ \ changed) \cup (changed \cap DOMAIN e.wt) |->
                                        IF p \in changed THEN e.wt[p] ELSE @[p]]],
                   ok |-> TRUE]

\* the working tree after a checkout of tree t: untracked files stay
Checkout(w, t) ==
    [p \in DOMAIN t \cup (DOMAIN w.wt \ DOMAIN w.index) |->
        IF p \in DOMAIN t THEN t[p] ELSE w.wt[p]]

\* git_wrapper::x::reset_hard(repo, sha): git reset --hard sha; sha 0 names no commit
reset_hard(w, sha) ==
    IF Fails(w) \/ sha = 0
    THEN [w |-> Tick(w), ok |-> FALSE]
    ELSE [w |-> [Tick(w) EXCEPT
                    !.head = sha,
                    !.index = TreeOf(w, sha),
                    !.wt = Checkout(w, TreeOf(w, sha))],
          ok |-> TRUE]

\* git merge --no-ff -m message sha.  The branch is at a commit sha descends from
\* (finish_transaction has just reset it there), so the merge commit takes sha's tree.
merge_no_ff(w, sha) ==
    IF Fails(w) \/ sha = 0 \/ w.head \notin Ancestors(w.commits, sha)
    THEN [w |-> Tick(w), ok |-> FALSE]
    ELSE IF sha = w.head
    THEN [w |-> Tick(w), ok |-> TRUE]    \* "Already up to date."
    ELSE [w |-> [Tick(w) EXCEPT
                    !.commits = Append(@, [parents |-> <<w.head, sha>>, tree |-> TreeOf(w, sha)]),
                    !.head = Len(w.commits) + 1,
                    !.index = TreeOf(w, sha),
                    !.wt = Checkout(w, TreeOf(w, sha))],
          ok |-> TRUE]

----------------------------------------------------------------------------
(* DataSource: the property store (src/src/source.rs) *)

NL == <<"\n">>

OPEN == <<"o", "p", "e", "n">>

CLOSED == <<"c", "l", "o", "s", "e", "d">>

\* Id::path joined with the property's file name
PathOf(id, file) == <<id, file>>

\* the issue directory exists when it holds a file
DirExists(w, id) == \E p \in DOMAIN w.wt : p[1] = id

\* DataSource::read: the file's text without trailing white space
read(w, id, file) ==
    IF PathOf(id, file) \in DOMAIN w.wt
    THEN [ok |-> TRUE, text |-> TrimEnd(w.wt[PathOf(id, file)])]
    ELSE [ok |-> FALSE, text |-> <<>>]

\* DataSource::milestone: Option<String> as a set
milestone(w, id) ==
    LET r == read(w, id, "milestone") IN IF r.ok THEN {r.text} ELSE {}

\* DataSource::title
title(w, id) ==
    LET r == read(w, id, "description")
        ls == Lines(r.text)
    IN  [ok |-> r.ok, text |-> IF r.ok /\ ls # <<>> THEN ls[1] ELSE <<>>]

\* DataSource::tags
tags(w, id) ==
    LET r == read(w, id, "tags") IN IF r.ok THEN Lines(Trim(r.text)) ELSE <<>>

\* the text write_to_file writes for a tag change
TagsText(w, p, action, tag) ==
    LET old == IF p \in DOMAIN w.wt THEN Lines(w.wt[p]) ELSE <<>>
        new == IF action = "Add" THEN Append(old, tag) ELSE Retain(old, tag)
    IN  Join(Dedup(Sort(new)), NL) \o NL

\* the description written as it was given
DescriptionTextUntrimmed(description) == description \o NL

\* the text write_to_file writes for a description
DescriptionText(description) == TrimEnd(description) \o NL

\* the text write_to_file writes for a milestone
MilestoneText(m) == m \o NL

\* the write removing a milestone with the directory of the issue (remove_dir_all)
WrittenRemovingDir(w, p, property) ==
    IF property.kind = "Description" THEN Put(w.wt, p, DescriptionText(property.value))
    ELSE IF property.kind = "Tag" THEN Put(w.wt, p, TagsText(w, p, property.action, property.value))
    ELSE IF property.action = "Add" THEN Put(w.wt, p, MilestoneText(property.value))
    ELSE [q \in {x \in DOMAIN w.wt : x[1] # p[1]} |-> w.wt[q]]

\* the working tree after the write of property (no step failing)
Written(w, p, property) ==
    IF property.kind = "Description" THEN Put(w.wt, p, DescriptionText(property.value))
    ELSE IF property.kind = "Tag" THEN Put(w.wt, p, TagsText(w, p, property.action, property.value))
    ELSE IF property.action = "Add" THEN Put(w.wt, p, MilestoneText(property.value))
    ELSE Del(w.wt, p)

\* DataSource::write_to_file: create the directory, write (or delete) the file, stage it
write_to_file(w, id, property) ==
    LET p == PathOf(id, property.kind_file)
        \* create_dir_all, when the directory is missing
        w1 == IF DirExists(w, id) THEN w ELSE Tick(w)
        mkdirFails == ~DirExists(w, id) /\ Fails(w)
        \* fs::write or fs::remove_file
        ioFails == Fails(w1)
                   \/ (property.kind = "Milestone" /\ property.action = "Remove"
                       /\ p \notin DOMAIN w1.wt)
        w2 == [Tick(w1) EXCEPT !.wt = Written(w1, p, property)]
    IN  IF mkdirFails THEN [w |-> w1, ok |-> FALSE]
        ELSE IF ioFails THEN [w |-> Tick(w1), ok |-> FALSE]
        ELSE stage(w2, p)

\* DataSource::write: write_to_file, then commit (never empty, hooks bypassed)
write(w, id, property) ==
    LET committed(r) == IF ~r.ok THEN r ELSE commit_extended(r.w, FALSE)
    IN  committed(write_to_file(w, id, property))

Tag(action, tag) ==
    [kind |-> "Tag", kind_file |-> "tags", action |-> action, value |-> tag]

Milestone(action, m) ==
    [kind |-> "Milestone", kind_file |-> "milestone", action |-> action, value |-> m]

Description(action, text) ==
    [kind |-> "Description", kind_file |-> "description", action |-> action, value |-> text]

\* Result<WriteResult, WriteError> of a write
Applied(r) == [w |-> r.w, res |-> IF r.ok THEN "Applied" ELSE "Err"]

NoChanges(w) == [w |-> w, res |-> "NoChanges"]

\* add_tag without the look at the tags the issue has
add_tag_unchecked(w, id, tag) == Applied(write(w, id, Tag("Add", tag)))

\* DataSource::add_tag
add_tag(w, id, tag) ==
    IF Contains(tags(w, id), tag) THEN NoChanges(w)
    ELSE Applied(write(w, id, Tag("Add", tag)))

\* DataSource::remove_tag
remove_tag(w, id, tag) ==
    IF Contains(tags(w, id), tag) THEN Applied(write(w, id, Tag("Remove", tag)))
    ELSE NoChanges(w)

\* add_milestone without the look at the milestone the issue has
add_milestone_unchecked(w, id, m) == Applied(write(w, id, Milestone("Add", m)))

\* DataSource::add_milestone
add_milestone(w, id, m) ==
    IF milestone(w, id) = {m} THEN NoChanges(w)
    ELSE Applied(write(w, id, Milestone("Add", m)))

\* DataSource::remove_milestone
remove_milestone(w, id) ==
    IF milestone(w, id) # {}
    THEN Applied(write(w, id, Milestone("Remove", CHOOSE m \in milestone(w, id) : TRUE)))
    ELSE NoChanges(w)

\* DataSource::new_description (without strict-compatibility): Result<(), WriteError>
new_description(w, id, text) ==
    LET tagged(r) == [w |-> r.w, res |-> IF r.ok THEN "Ok" ELSE "Err"]
        described(r) == IF ~r.ok THEN [w |-> r.w, res |-> "Err"]
                        ELSE tagged(write(r.w, id, Tag("Add", OPEN)))
    IN  described(write(w, id, Description("New", text)))

\* DataSource::edit_description
edit_description(w, id, text) ==
    LET edited(r) == [w |-> r.w, res |-> IF r.ok THEN "Ok" ELSE "Err"]
    IN  edited(write(w, id, Description("Edit", text)))

\* the result of the last write standing for the results of all
WriteResultFromLast(list) == list[Len(list)]

\* WriteResult::from(Vec<WriteResult>)
WriteResultFrom(list) == IF Contains(list, "Applied") THEN "Applied" ELSE "NoChanges"

\* Issue::is_closed, on the tags cache_tags reads with DataSource::tags
is_closed(w, id) == Contains(tags(w, id), CLOSED)

\* close_issue adding the tag closed and leaving the tag open
close_issue_keeping_open(w, id) == add_tag(w, id, CLOSED)

\* DataSource::close_issue
close_issue(w, id) ==
    LET closed(r1, r2) == IF r2.res = "Err" THEN r2
                          ELSE [w |-> r2.w, res |-> WriteResultFrom(<<r1.res, r2.res>>)]
        opened(r1) == IF r1.res = "Err" THEN r1 ELSE closed(r1, add_tag(r1.w, id, CLOSED))
    IN  opened(remove_tag(w, id, OPEN))

\* the loop of create_issue over the tags
RECURSIVE AddTags(_, _, _)
AddTags(w, id, ts) ==
    IF ts = <<>> THEN [w |-> w, res |-> "Ok"]
    ELSE LET added(r) == IF r.res = "Err" THEN r ELSE AddTags(r.w, id, Tail(ts))
         IN  added(add_tag(w, id, Head(ts)))

\* create_issue taking the id from the head it finds, before the marker commit is made
create_issue_at_head(w, description, ts, ms) ==
    LET failed(r) == [w |-> r.w, res |-> "Err", id |-> 0]
        with_milestone(id, m) ==
            IF m.res = "Err" THEN failed(m) ELSE [w |-> m.w, res |-> "Ok", id |-> id]
        with_tags(id, t) ==
            IF t.res = "Err" THEN failed(t)
            ELSE with_milestone(id, IF ms = {} THEN NoChanges(t.w)
                                    ELSE add_milestone(t.w, id, CHOOSE x \in ms : TRUE))
        with_description(id, d) ==
            IF d.res = "Err" THEN failed(d) ELSE with_tags(id, AddTags(d.w, id, ts))
        with_marker(c) ==
            IF ~c.ok THEN failed(c)
            ELSE with_description(head(w), new_description(c.w, head(w), description))
    IN  with_marker(commit_extended(w, TRUE))

\* DataSource::create_issue; ms is the Option<String> as a set
create_issue(w, description, ts, ms) ==
    LET failed(r) == [w |-> r.w, res |-> "Err", id |-> 0]
        with_milestone(id, m) ==
            IF m.res = "Err" THEN failed(m) ELSE [w |-> m.w, res |-> "Ok", id |-> id]
        with_tags(id, t) ==
            IF t.res = "Err" THEN failed(t)
            ELSE with_milestone(id, IF ms = {} THEN NoChanges(t.w)
                                    ELSE add_milestone(t.w, id, CHOOSE x \in ms : TRUE))
        with_description(id, d) ==
            IF d.res = "Err" THEN failed(d) ELSE with_tags(id, AddTags(d.w, id, ts))
        \* c: the empty marker commit, whose hash is the issue's id
        with_marker(c) ==
            IF ~c.ok THEN failed(c)
            ELSE with_description(head(c.w), new_description(c.w, head(c.w), description))
    IN  with_marker(commit_extended(w, TRUE))

----------------------------------------------------------------------------
(* The errors of the transaction coordinator and their messages             *)
(* (src/src/errors.rs).  A message is a sequence of pieces: literal text,   *)
(* and the argument {0} of the format string.  The recovery commands are    *)
(* pieces of their own.                                                     *)

Text(s) == <<"text", s>>

Arg(p) == <<"arg", p>>

\* what the git command that failed printed: the text an error of git_wrapper carries
Output(command) == <<"output", command>>

RESET_HARD == "git reset --hard "

STASH_POP == "git stash pop"

\* #[error(..)] of RollbackError
RollbackErrorDisplay(variant, p) ==
    IF variant = "Unstash"
    THEN <<Arg(p), Text("\nFailed to unstash changes.\nUse "), Text(STASH_POP),
           Text(" to do it manually.")>>
    ELSE IF variant = "Reset"
    THEN <<Text("Failed to reset back to commit "), Arg(p), Text(".\nUse "),
           Text(RESET_HARD), Arg(p), Text(".")>>
    ELSE <<Text("Failed to reset back to commit "), Arg(p),              \* ResetUnstash
           Text(".\nTo restore your data use:\n "),
           Text(RESET_HARD), Arg(p), Text(" && "), Text(STASH_POP)>>

\* #[error(..)] of FinishError
FinishErrorDisplay(variant, p) ==
    IF variant = "Unstash"
    THEN <<Arg(p), Text("\nFailed to unstash changes.\nUse "), Text(STASH_POP),
           Text(" to do it manually.")>>
    ELSE IF variant = "Reset"
    THEN <<Text("Failed to reset back to commit "), Arg(p),
           Text(".\nTo restore your repo to previous state, use:\n "),
           Text(RESET_HARD), Arg(p)>>
    ELSE IF variant = "ResetUnstash"
    THEN <<Text("Failed to reset back to commit "), Arg(p),
           Text(".\nTo restore your repo state, use:\n "),
           Text(RESET_HARD), Arg(p), Text(" && "), Text(STASH_POP)>>
    ELSE IF variant = "MergeUnstash"
    THEN <<Text("Failed to merge issue changes with commit "), Arg(p),
           Text(".\nTo restore your repo to previous state, use:\n "),
           Text(RESET_HARD), Arg(p)>>
    ELSE <<Text("Failed to reset back to commit "), Arg(p),              \* Merge
           Text(".\nTo restore your data repo to previous state:\n "),
           Text(RESET_HARD), Arg(p), Text(" && "), Text(STASH_POP)>>

\* #[error(..)] of TransactionError::NotStarted
NotStartedDisplay == <<Text("Bug! Transaction not started!")>>

\* #[error("{0}")] of TransactionError::StashingError
StashingErrorDisplay(p) == <<Arg(p)>>

\* the message of the panic of expect("A started transaction")
PanicDisplay == <<Text("A started transaction")>>

\* Display of the error enum `error`
ErrorDisplay(error, variant, p) ==
    IF error = "RollbackError" THEN RollbackErrorDisplay(variant, p)
    ELSE FinishErrorDisplay(variant, p)

----------------------------------------------------------------------------
(* DataSource: the transaction coordinator (src/src/source.rs).  A call     *)
(* returns the world, the transaction the DataSource then holds, its result *)
(* (Ok or the error variant), the git steps it made, each with its outcome, *)
(* and the message of its error.                                            *)

None == <<>>

Some(x) == <<x>>

GitCall(step, ok) == <<step, IF ok THEN "Ok" ELSE "Err">>

Outcome(w, t, res, git, msg) == [w |-> w, t |-> t, res |-> res, git |-> git, msg |-> msg]

\* start_transaction recording the transaction without stashing
start_transaction_without_stash(w, t) ==
    Outcome(w, Some([start_sha |-> head(w), stash_before |-> ~is_clean(w)]), "Ok", <<>>, <<>>)

\* DataSource::start_transaction.  Repository::head gives a String: on a branch without a
\* commit it names no commit (0), and the call goes on.
start_transaction(w, t) ==
    LET start_sha == head(w)
        stash_before == ~is_clean(w)
        new == [start_sha |-> start_sha, stash_before |-> stash_before]
        s == stash_almost_all(w)
    IN  IF ~stash_before THEN Outcome(w, Some(new), "Ok", <<>>, <<>>)
        ELSE IF ~s.ok
        THEN Outcome(s.w, t, "StashingError", <<GitCall("stash_almost_all", FALSE)>>,
                     StashingErrorDisplay(Output("git stash")))
        ELSE Outcome(s.w, Some(new), "Ok", <<GitCall("stash_almost_all", TRUE)>>, <<>>)

\* the end of rollback_transaction and of the finish calls: the stash is popped when one
\* was made, after the git steps `git`, and the transaction is cleared
pop_stash(w, t, git, error, held) ==
    IF ~t[1].stash_before THEN Outcome(w, None, "Ok", git, <<>>)
    ELSE LET popped(u) ==
                 IF ~u.ok
                 THEN Outcome(u.w, held, "Unstash", Append(git, GitCall("stash_pop", FALSE)),
                              ErrorDisplay(error, "Unstash", Output("git stash pop")))
                 ELSE Outcome(u.w, None, "Ok", Append(git, GitCall("stash_pop", TRUE)), <<>>)
         IN  popped(stash_pop(w))

\* the variant of a failed reset or merge chosen without looking at the stash
PendingIgnored(t, unstash, plain) == plain

\* the variant of a failed reset or merge: if transaction.stash_before { .. } else { .. }
Pending(t, unstash, plain) == IF t[1].stash_before THEN unstash ELSE plain

\* rollback_transaction without the reset
rollback_transaction_without_reset(w, t) ==
    IF t = None THEN Outcome(w, None, "NotStarted", <<>>, NotStartedDisplay)
    ELSE pop_stash(w, t, <<>>, "RollbackError", None)

\* DataSource::rollback_transaction.  It takes the DataSource by value: whatever it
\* returns, the handle and the transaction it held are gone.
rollback_transaction(w, t) ==
    IF t = None THEN Outcome(w, None, "NotStarted", <<>>, NotStartedDisplay)
    ELSE LET reset(r) ==
                 IF ~r.ok
                 THEN Outcome(r.w, None, Pending(t, "ResetUnstash", "Reset"),
                              <<GitCall("reset_hard", FALSE)>>,
                              RollbackErrorDisplay(Pending(t, "ResetUnstash", "Reset"),
                                                   Output("git reset")))
                 ELSE pop_stash(r.w, t, <<GitCall("reset_hard", TRUE)>>, "RollbackError", None)
         IN  reset(reset_hard(w, t[1].start_sha))

\* the merge of finish_transaction going on to the stash whether it succeeded or not
merge_back_popping(w, t, sha, git) ==
    LET merged(m) == pop_stash(m.w, t, Append(git, GitCall("merge", m.ok)), "FinishError", t)
    IN  merged(merge_no_ff(w, sha))

\* the merge of finish_transaction and what follows it
merge_back(w, t, sha, git) ==
    LET merged(m) ==
            IF ~m.ok
            THEN Outcome(m.w, t, Pending(t, "MergeUnstash", "Merge"),
                         Append(git, GitCall("merge", FALSE)),
                         FinishErrorDisplay(Pending(t, "MergeUnstash", "Merge"),
                                            Output("git merge")))
            ELSE pop_stash(m.w, t, Append(git, GitCall("merge", TRUE)), "FinishError", t)
    IN  merged(merge_no_ff(w, sha))

\* finish_transaction_without_merge resetting and merging as finish_transaction does
finish_transaction_with_merge(w, t) ==
    IF t = None THEN Outcome(w, t, "panic", <<>>, PanicDisplay)
    ELSE LET reset(r) ==
                 IF ~r.ok THEN Outcome(r.w, t, "Reset", <<GitCall("reset_hard", FALSE)>>, <<>>)
                 ELSE merge_back(r.w, t, head(w), <<GitCall("reset_hard", TRUE)>>)
         IN  reset(reset_hard(w, t[1].start_sha))

\* finish_transaction_without_merge giving up the transaction when the stash pop fails
finish_transaction_without_merge_clearing(w, t) ==
    IF t = None THEN Outcome(w, t, "panic", <<>>, PanicDisplay)
    ELSE pop_stash(w, t, <<>>, "FinishError", None)

\* DataSource::finish_transaction_without_merge
finish_transaction_without_merge(w, t) ==
    IF t = None THEN Outcome(w, t, "panic", <<>>, PanicDisplay)  \* expect("A started transaction")
    ELSE pop_stash(w, t, <<>>, "FinishError", t)

\* finish_transaction without the reset: the merge finds the branch up to date
finish_transaction_without_reset(w, t) ==
    IF t = None THEN Outcome(w, t, "panic", <<>>, PanicDisplay)
    ELSE merge_back(w, t, head(w), <<>>)

\* DataSource::finish_transaction (without strict-compatibility)
finish_transaction(w, t) ==
    IF t = None THEN Outcome(w, t, "panic", <<>>, PanicDisplay)  \* expect("A started transaction")
    ELSE LET reset(r) ==
                 IF ~r.ok
                 THEN Outcome(r.w, t, Pending(t, "ResetUnstash", "Reset"),
                              <<GitCall("reset_hard", FALSE)>>,
                              FinishErrorDisplay(Pending(t, "ResetUnstash", "Reset"),
                                                 Output("git reset")))
                 ELSE merge_back(r.w, t, head(w), <<GitCall("reset_hard", TRUE)>>)
         IN  reset(reset_hard(w, t[1].start_sha))


----------------------------------------------------------------------------
(* The mutating commands (src/src/bin/git-issue-*.rs).  Each runs on a     *)
(* DataSource of its own, made by DataSource::try_new with no transaction; *)
(* it returns the world, the transaction the DataSource holds when the     *)
(* command returns, the library calls made and the command's result.  The   *)
(* log of calls holds, after each call of the transaction coordinator, the  *)
(* git steps that call made.                                                *)

Call(op, res) == <<op, res>>

Returned(w, t, calls, res) == [w |-> w, t |-> t, calls |-> calls, res |-> res]

\* the command returns what its call r of start, finish or rollback returned, or the
\* error it had before
Ended(calls, op, r, failed) ==
    Returned(r.w, r.t, Append(calls, Call(op, r.res)) \o r.git,
             IF r.res = "panic" THEN "panic"
             ELSE IF failed \/ r.res # "Ok" THEN "Err"
             ELSE "Ok")

\* git-issue-new: execute
new_execute(w, description, ts, ms) ==
    LET created(t, calls, c) ==
            IF c.res = "Ok"
            THEN Ended(Append(calls, Call("create_issue", c.res)), "finish_transaction",
                       finish_transaction(c.w, t), FALSE)
            ELSE Ended(Append(calls, Call("create_issue", c.res)), "rollback_transaction",
                       rollback_transaction(c.w, t), TRUE)
        started(s) ==
            IF s.res # "Ok" THEN Ended(<<>>, "start_transaction", s, TRUE)
            ELSE created(s.t, <<Call("start_transaction", s.res)>> \o s.git,
                         create_issue(s.w, description, ts, ms))
    IN  started(start_transaction(w, None))

\* DataSource::title as a command calls it: reading the file is a step that can fail
read_title(w, id) ==
    [w |-> Tick(w), ok |-> ~Fails(w) /\ title(w, id).ok]

\* git-issue-close: close_issues, the loop over the ids
RECURSIVE close_issues(_, _, _, _)
close_issues(w, ids, results, calls) ==
    IF ids = <<>> THEN Returned(w, None, calls, WriteResultFrom(results))
    ELSE LET logged(called, ti) ==
                 IF ~ti.ok      \* expect("Has a description")
                 THEN Returned(ti.w, None, Append(called, Call("title", "Err")), "panic")
                 ELSE close_issues(ti.w, Tail(ids), Append(results, "Applied"),
                                   Append(called, Call("title", "Ok")))
             closed(r) ==
                 IF r.res = "Err"
                 THEN Returned(r.w, None, Append(calls, Call("close_issue", r.res)), "Err")
                 ELSE IF r.res = "NoChanges"
                 THEN close_issues(r.w, Tail(ids), Append(results, r.res),
                                   Append(calls, Call("close_issue", r.res)))
                 ELSE logged(Append(calls, Call("close_issue", r.res)),
                             read_title(r.w, Head(ids)))
         IN  closed(close_issue(w, Head(ids)))

\* git-issue-close: execute
close_execute(w, ids) ==
    LET titled(t, calls, ti) ==
            IF ~ti.ok       \* data.title(&issue_ids[0])?
            THEN Returned(ti.w, t, Append(calls, Call("title", "Err")), "Err")
            ELSE Ended(Append(calls, Call("title", "Ok")), "finish_transaction",
                       finish_transaction(ti.w, t), FALSE)
        closed(t, c) ==
            IF c.res = "panic" THEN Returned(c.w, t, c.calls, "panic")
            ELSE IF c.res = "Applied"
            THEN IF Len(ids) = 1 THEN titled(t, c.calls, read_title(c.w, ids[1]))
                 ELSE Ended(c.calls, "finish_transaction", finish_transaction(c.w, t), FALSE)
            ELSE Ended(c.calls, "rollback_transaction", rollback_transaction(c.w, t),
                       c.res = "Err")
        started(s) ==
            IF s.res # "Ok" THEN Ended(<<>>, "start_transaction", s, TRUE)
            ELSE closed(s.t, close_issues(s.w, ids, <<>>,
                                          <<Call("start_transaction", s.res)>> \o s.git))
    IN  started(start_transaction(w, None))

\* git-issue-tag: add_tags and remove_tags, the loop over the tags
RECURSIVE apply_tags(_, _, _, _, _, _)
apply_tags(w, id, remove, ts, applied, calls) ==
    IF ts = <<>> THEN [w |-> w, res |-> "Ok", applied |-> applied, calls |-> calls]
    ELSE LET op == IF remove THEN "remove_tag" ELSE "add_tag"
             written(r) ==
                 IF r.res = "Err"
                 THEN [w |-> r.w, res |-> "Err", applied |-> applied,
                       calls |-> Append(calls, Call(op, r.res))]
                 ELSE apply_tags(r.w, id, remove, Tail(ts),
                                 IF r.res = "Applied" THEN Append(applied, Head(ts))
                                 ELSE applied,
                                 Append(calls, Call(op, r.res)))
         IN  written(IF remove THEN remove_tag(w, id, Head(ts)) ELSE add_tag(w, id, Head(ts)))

\* git-issue-tag: execute
tag_execute(w, id, remove, ts) ==
    LET applied(t, a) ==
            IF a.res = "Err" THEN Returned(a.w, t, a.calls, "Err")    \* and_then is skipped
            ELSE IF a.applied = <<>>
            THEN Ended(a.calls, "rollback_transaction", rollback_transaction(a.w, t), FALSE)
            ELSE Ended(a.calls, "finish_transaction", finish_transaction(a.w, t), FALSE)
        started(s) ==
            IF s.res # "Ok" THEN Ended(<<>>, "start_transaction", s, TRUE)
            ELSE applied(s.t, apply_tags(s.w, id, remove, ts, <<>>,
                                         <<Call("start_transaction", s.res)>> \o s.git))
    IN  started(start_transaction(w, None))

\* git-issue-milestone: what set_cmd and remove_cmd do with the result m of the write
milestone_match(m, t, calls) ==
    IF m.res = "Applied"
    THEN Ended(calls, "finish_transaction_without_merge",
               finish_transaction_without_merge(m.w, t), FALSE)
    ELSE Ended(calls, "rollback_transaction", rollback_transaction(m.w, t), m.res = "Err")

\* git-issue-milestone: set_cmd
set_cmd(w, id, m) ==
    LET written(t, calls, a) ==
            milestone_match(a, t, Append(calls, Call("add_milestone", a.res)))
        started(s) ==
            IF s.res # "Ok" THEN Ended(<<>>, "start_transaction", s, TRUE)
            ELSE written(s.t, <<Call("start_transaction", s.res)>> \o s.git,
                         add_milestone(s.w, id, m))
    IN  started(start_transaction(w, None))

\* git-issue-milestone: remove_cmd.  It logs "Starting transaction" and starts none.
remove_cmd(w, id) ==
    LET written(a) == milestone_match(a, None, <<Call("remove_milestone", a.res)>>)
    IN  written(remove_milestone(w, id))

----------------------------------------------------------------------------
(* DataSource::find_issue (src/src/source.rs).  It reads the directories     *)
(* below .issues/issues: d.shards holds the names of the directories there,  *)
(* d.leaves the directories below those, each as <<shard, leaf>>.  A path is *)
(* the sequence of names below .issues/issues.  A listing has no order the   *)
(* code fixes, so the ids a call gives are a set.                            *)

\* Path::exists
exists(d, path) ==
    \/ path = <<>>
    \/ Len(path) = 1 /\ path[1] \in d.shards
    \/ Len(path) = 2 /\ path \in d.leaves

\* list_dirs: the directories in path, none when path does not exist
list_dirs(d, path) ==
    IF path = <<>> THEN {<<s>> : s \in d.shards}
    ELSE IF Len(path) = 1 THEN {p \in d.leaves : p[1] = path[1]}
    ELSE {}

\* Id::from taking the name of the directory alone
IdFromLeaf(path) == path[2]

\* Id::from(&PathBuf): the name of the parent directory followed by the name of the directory
IdFrom(path) == path[1] \o path[2]

\* starts_with with its arguments exchanged
starts_with_exchanged(s, prefix) == Len(s) <= Len(prefix) /\ SubSeq(prefix, 1, Len(s)) = s

\* str::starts_with
starts_with(s, prefix) == Len(prefix) <= Len(s) /\ SubSeq(s, 1, Len(prefix)) = prefix

\* Ok(Id)
Found(id) == [res |-> "Ok", needle |-> <<>>, ids |-> {id}]

\* Err(FindError::NotFound(needle))
NotFound(needle) == [res |-> "NotFound", needle |-> needle, ids |-> {}]

\* Err(FindError::MultipleFound(needle, ids))
MultipleFound(needle, ids) == [res |-> "MultipleFound", needle |-> needle, ids |-> ids]

\* match ids.len() { 0 => .., 1 => .., _ => .. }
match_len(needle, ids) ==
    IF ids = {} THEN NotFound(needle)
    ELSE IF Cardinality(ids) = 1 THEN Found(CHOOSE id \in ids : TRUE)
    ELSE MultipleFound(needle, ids)

\* the arm for two characters giving one of the issues of the shard when it has several
find_two_chars_any(d, needle) ==
    LET ids == {IdFrom(p) : p \in list_dirs(d, <<needle>>)}
    IN  IF ids = {} THEN NotFound(needle) ELSE Found(CHOOSE id \in ids : TRUE)

\* find_issue, the arm of a needle of two characters
find_two_chars(d, needle) ==
    IF exists(d, <<needle>>)
    THEN match_len(needle, {IdFrom(p) : p \in list_dirs(d, <<needle>>)})
    ELSE NotFound(needle)

\* the arm for three characters and more taking every issue of the shard as a candidate
find_prefix_unfiltered(d, needle) ==
    IF Len(needle) < 2 THEN [res |-> "panic", needle |-> needle, ids |-> {}]
    ELSE match_len(needle, {IdFrom(p) : p \in list_dirs(d, <<SubSeq(needle, 1, 2)>>)})

\* find_issue, the arm `_` of the match on needle.len(): three characters and more, and
\* the empty needle, where the slice &needle[..2] is out of range and panics
find_prefix(d, needle) ==
    LET shard == SubSeq(needle, 1, 2)
    IN  IF Len(needle) < 2 THEN [res |-> "panic", needle |-> needle, ids |-> {}]
        ELSE IF exists(d, <<shard, SubSeq(needle, 3, Len(needle))>>) THEN Found(needle)
        ELSE match_len(needle, {id \in {IdFrom(p) : p \in list_dirs(d, <<shard>>)} :
                                    starts_with(id, needle)})

\* the arm for one character giving NotFound when no issue starts with the needle
find_one_char_matching(d, needle) ==
    match_len(needle, {id \in {IdFrom(p) : p \in d.leaves} : starts_with(id, needle)})

RECURSIVE find_issue(_, _)

\* find_issue, the arm of a needle of one character
find_one_char(d, needle) ==
    LET dirs == list_dirs(d, <<>>)
    IN  IF Cardinality(dirs) = 1
        THEN find_issue(d, (CHOOSE p \in dirs : TRUE)[1])    \* the name of dirs[0]
        ELSE MultipleFound(needle, {IdFrom(p) : p \in UNION {list_dirs(d, q) : q \in dirs}})

\* DataSource::find_issue
find_issue(d, needle) ==
    IF Len(needle) = 1 THEN find_one_char(d, needle)
    ELSE IF Len(needle) = 2 THEN find_two_chars(d, needle)
    ELSE find_prefix(d, needle)

----------------------------------------------------------------------------
(* State *)

\* texts the calls are made with
TagF == <<"f">>

Tags == {OPEN, TagF}

Milestones == {<<"m">>}

\* files outside the issue tracker: one committed with the repository, one not
Readme == <<0, "README">>

Notes == <<0, "notes">>

\* the fallible step a call is made to fail at (0: none), within the budget of the run
Faults(n) == IF faulty < MaxFaulty THEN 0..n ELSE {0}

\* the call that returned world w with fuel f was made to fail
Charged(f, w) == faulty' = IF f > 0 /\ w.fuel = 0 THEN faulty + 1 ELSE faulty

\* the repository `create` leaves: one commit
CreatedRepo ==
    LET t == Put(EmptyTree, Readme, <<"a">>)
    IN  [commits |-> <<[parents |-> <<>>, tree |-> t]>>, head |-> 1, index |-> t, wt |-> t,
         stash |-> <<>>]

\* a repository whose branch has no commit yet (git init): HEAD resolves to nothing
UnbornRepo ==
    [commits |-> <<>>, head |-> 0, index |-> EmptyTree, wt |-> EmptyTree, stash |-> <<>>]

\* the repository after the command `new` has created an issue in it
RepoWithIssue(r, description, ts, ms) == Repo(new_execute(World(r, 0), description, ts, ms).w)

\* the issues of the working tree
Issues(r) == {p[1] : p \in DOMAIN r.wt} \ {0}

\* what someone may have changed outside the tracker and not committed: nothing,
\* a tracked file modified, a tracked file deleted and an untracked file created
UserChanges ==
    {{}, {<<Readme, {<<"b">>}>>}, {<<Readme, {}>>, <<Notes, {<<"a">>}>>}}

RECURSIVE EditedTree(_, _)
EditedTree(t, changes) ==
    IF changes = {} THEN t
    ELSE LET c == CHOOSE x \in changes : TRUE
         IN  EditedTree(IF c[2] = {} THEN Del(t, c[1])
                        ELSE Put(t, c[1], CHOOSE x \in c[2] : TRUE),
                        changes \ {c})

\* repository r with the working tree changed
Edited(r, changes) == [r EXCEPT !.wt = EditedTree(@, changes)]

NoCall ==
    [op |-> "none", id |-> 0, arg |-> <<>>, res |-> "none", git |-> <<>>, msg |-> <<>>, ids |-> {}]

\* no directory below .issues/issues
NoDirs == [shards |-> {}, leaves |-> {}]

NoTxn == [base |-> 0, stash |-> 0, applied |-> 0, changes |-> {}]

NoCmd == [name |-> "none", id |-> <<>>, calls |-> <<>>, res |-> "none"]

\* the uncommitted changes of a world: the paths where the working tree is not the head's tree
Changes(w) ==
    {<<p, At(w.wt, p)>> : p \in {q \in DOMAIN w.wt \cup DOMAIN HeadTree(w) :
                                    At(w.wt, q) # At(HeadTree(w), q)}}

\* a DataSource just made, on repository r
Fresh(r) ==
    /\ repo = r
    /\ transaction = None
    /\ last = NoCall
    /\ txn = NoTxn
    /\ faulty = 0
    /\ cmd = NoCmd
    /\ issues_dir = NoDirs

Init ==
    /\ \E r \in {RepoWithIssue(CreatedRepo, <<"a">>, <<>>, {}), UnbornRepo},
          dirt \in UserChanges :
          Fresh(Edited(r, dirt))
    /\ expected = {}

----------------------------------------------------------------------------
(* The library calls, made in any order by a client of the DataSource *)

Room(n) == Len(repo.commits) + n <= MaxCommits

BracketFailures ==
    {"StashingError", "Reset", "ResetUnstash", "Merge", "MergeUnstash", "Unstash", "panic"}

\* a failed start, finish or rollback (and a panic) ends the run: every caller returns
\* the error at once, and the operator repairs the repository by hand
Stopped ==
    \/ last.res \in BracketFailures
    \/ \E i \in 1..Len(cmd.calls) : cmd.calls[i][2] \in BracketFailures

Called(op, id, arg, res) ==
    last' = [op |-> op, id |-> id, arg |-> arg, res |-> res, git |-> <<>>, msg |-> <<>>,
             ids |-> {}]

\* a call that writes a property: r is what the call returns
Wrote(op, id, arg, r) ==
    /\ repo' = Repo(r.w)
    /\ Called(op, id, arg, r.res)
    /\ txn' = [txn EXCEPT !.applied = IF r.res \in {"Applied", "Ok"} THEN @ + 1 ELSE @]
    /\ UNCHANGED <<transaction, issues_dir>>

\* a call that starts or ends the transaction: r is what the call returns
Bracketed(op, r) ==
    /\ repo' = Repo(r.w)
    /\ transaction' = r.t
    /\ last' = [op |-> op, id |-> 0, arg |-> <<>>, res |-> r.res, git |-> r.git, msg |-> r.msg,
                 ids |-> {}]
    /\ UNCHANGED issues_dir

StartTransaction ==
    /\ ~Stopped
    /\ \E f \in Faults(MaxFault) :
          LET r == start_transaction(World(repo, f), transaction)
          IN  /\ Charged(f, r.w)
              /\ Bracketed("start_transaction", r)
              /\ txn' = IF r.res = "Ok"
                        THEN [base |-> Len(repo.commits), stash |-> Len(repo.stash),
                              applied |-> 0, changes |-> Changes(World(repo, 0))]
                        ELSE txn
    /\ UNCHANGED <<expected, cmd>>

FinishTransaction ==
    /\ ~Stopped /\ Room(1)
    /\ \E f \in Faults(MaxFault) :
          LET r == finish_transaction(World(repo, f), transaction)
          IN  Charged(f, r.w) /\ Bracketed("finish_transaction", r)
    /\ UNCHANGED <<txn, expected, cmd>>

FinishTransactionWithoutMerge ==
    /\ ~Stopped
    /\ \E f \in Faults(MaxFault) :
          LET r == finish_transaction_without_merge(World(repo, f), transaction)
          IN  Charged(f, r.w) /\ Bracketed("finish_transaction_without_merge", r)
    /\ UNCHANGED <<txn, expected, cmd>>

RollbackTransaction ==
    /\ ~Stopped
    /\ \E f \in Faults(MaxFault) :
          LET r == rollback_transaction(World(repo, f), transaction)
          IN  Charged(f, r.w) /\ Bracketed("rollback_transaction", r)
    /\ UNCHANGED <<txn, expected, cmd>>

AddTag ==
    /\ ~Stopped /\ Room(1)
    /\ \E id \in Issues(repo), tag \in Tags, f \in Faults(MaxFault) :
          LET r == add_tag(World(repo, f), id, tag)
          IN  Charged(f, r.w) /\ Wrote("add_tag", id, tag, r)
    /\ UNCHANGED <<expected, cmd>>

AddMilestone ==
    /\ ~Stopped /\ Room(1)
    /\ \E id \in Issues(repo), m \in Milestones, f \in Faults(MaxFault) :
          LET r == add_milestone(World(repo, f), id, m)
          IN  Charged(f, r.w) /\ Wrote("add_milestone", id, m, r)
    /\ UNCHANGED <<expected, cmd>>

Next ==
    \/ StartTransaction
    \/ FinishTransaction
    \/ FinishTransactionWithoutMerge
    \/ RollbackTransaction
    \/ AddTag
    \/ AddMilestone

Spec == Init /\ [][Next]_vars

----------------------------------------------------------------------------
(* The property store: tags and milestones written to a newly created issue, *)
(* git never failing                                                         *)

StoreTags == {<<>>, CLOSED, TagF, OPEN}

StoreMilestones == {<<"m">>, <<"n">>, <<"m", " ">>}

InitStore ==
    /\ \E ts \in {<<>>, <<TagF>>} : Fresh(RepoWithIssue(CreatedRepo, <<"a">>, ts, {}))
    /\ expected = UNION {Range(tags(World(repo, 0), id)) : id \in Issues(repo)}

\* the tag set after the n-th operation, from the set before it
AfterTagOp(set, op, tag, res) ==
    IF res = "Err" THEN set
    ELSE IF op = "add_tag" THEN set \cup {tag}
    ELSE set \ {tag}

StoreAddTag ==
    /\ Room(1)
    /\ \E id \in Issues(repo), tag \in StoreTags :
          LET r == add_tag(World(repo, 0), id, tag)
          IN  /\ Wrote("add_tag", id, tag, r)
              /\ expected' = AfterTagOp(expected, "add_tag", tag, r.res)
    /\ UNCHANGED <<faulty, cmd>>

StoreRemoveTag ==
    /\ Room(1)
    /\ \E id \in Issues(repo), tag \in StoreTags :
          LET r == remove_tag(World(repo, 0), id, tag)
          IN  /\ Wrote("remove_tag", id, tag, r)
              /\ expected' = AfterTagOp(expected, "remove_tag", tag, r.res)
    /\ UNCHANGED <<faulty, cmd>>

StoreAddMilestone ==
    /\ Room(1)
    /\ \E id \in Issues(repo), m \in StoreMilestones :
          Wrote("add_milestone", id, m, add_milestone(World(repo, 0), id, m))
    /\ UNCHANGED <<expected, faulty, cmd>>

StoreRemoveMilestone ==
    /\ Room(1)
    /\ \E id \in Issues(repo) :
          Wrote("remove_milestone", id, <<>>, remove_milestone(World(repo, 0), id))
    /\ UNCHANGED <<expected, faulty, cmd>>

NextStore == StoreAddTag \/ StoreRemoveTag \/ StoreAddMilestone \/ StoreRemoveMilestone

SpecStore == InitStore /\ [][NextStore]_vars

----------------------------------------------------------------------------
(* Descriptions: an issue is created with a description and the description  *)
(* is edited once, the texts enumerated character by character               *)

DescChars == {"a", " ", "\n", "\r"}

Texts(n) == UNION {[1..k -> DescChars] : k \in 0..n}

InitDesc == Fresh(CreatedRepo) /\ expected = {}

DescCreateIssue ==
    /\ Issues(repo) = {} /\ Room(3)
    /\ \E d \in Texts(MaxDescLen) :
          LET r == create_issue(World(repo, 0), d, <<>>, {})
          IN  /\ repo' = Repo(r.w)
              /\ Called("create_issue", r.id, d, r.res)
    /\ UNCHANGED <<transaction, txn, expected, faulty, cmd, issues_dir>>

DescEditDescription ==
    /\ last.op = "create_issue" /\ Room(1)
    /\ \E d \in Texts(MaxDescLen) :
          Wrote("edit_description", last.id, d, edit_description(World(repo, 0), last.id, d))
    /\ UNCHANGED <<expected, faulty, cmd>>

NextDesc == DescCreateIssue \/ DescEditDescription

SpecDesc == InitDesc /\ [][NextDesc]_vars

----------------------------------------------------------------------------
(* The commands, run one after the other on a created repository *)

InitCmd ==
    /\ \E dirt \in UserChanges : Fresh(Edited(CreatedRepo, dirt))
    /\ expected = {}

\* the command returned r
Ran(name, id, r, f) ==
    /\ Charged(f, r.w)
    /\ repo' = Repo(r.w)
    /\ transaction' = r.t
    /\ cmd' = [name |-> name, id |-> id, calls |-> r.calls, res |-> r.res]
    /\ UNCHANGED <<last, txn, expected, issues_dir>>

NewCommand ==
    /\ ~Stopped
    /\ \E ts \in {<<>>, <<TagF>>}, ms \in {{}} \cup {{m} : m \in Milestones},
          f \in Faults(MaxCmdFault) :
          /\ Room(4 + Len(ts) + Cardinality(ms))
          /\ Ran("new", <<>>, new_execute(World(repo, f), <<"a">>, ts, ms), f)

CloseCommand ==
    /\ ~Stopped /\ Room(3)
    /\ \E id \in Issues(repo), f \in Faults(MaxCmdFault) :
          Ran("close", <<id>>, close_execute(World(repo, f), <<id>>), f)

TagCommand ==
    /\ ~Stopped
    /\ \E id \in Issues(repo), remove \in BOOLEAN, ts \in {<<TagF>>, <<OPEN, TagF>>},
          f \in Faults(MaxCmdFault) :
          /\ Room(Len(ts) + 1)
          /\ Ran("tag", <<id>>, tag_execute(World(repo, f), id, remove, ts), f)

MilestoneSetCommand ==
    /\ ~Stopped /\ Room(1)
    /\ \E id \in Issues(repo), m \in Milestones, f \in Faults(MaxCmdFault) :
          Ran("milestone set", <<id>>, set_cmd(World(repo, f), id, m), f)

MilestoneRemoveCommand ==
    /\ ~Stopped /\ Room(1)
    /\ \E id \in Issues(repo), f \in Faults(MaxCmdFault) :
          Ran("milestone remove", <<id>>, remove_cmd(World(repo, f), id), f)

NextCmd ==
    \/ NewCommand
    \/ CloseCommand
    \/ TagCommand
    \/ MilestoneSetCommand
    \/ MilestoneRemoveCommand

SpecCmd == InitCmd /\ [][NextCmd]_vars

----------------------------------------------------------------------------
(* find_issue: issues are created, their directories are removed, and       *)
(* find_issue is called with every needle.  An id is a commit hash: here    *)
(* IdLen characters, the first two naming the shard.                        *)

IdChars == {"a", "b"}

IdLen == 4

Ids == [1..IdLen -> IdChars]

\* the needles find_issue is called with, the empty string among them
Needles == UNION {[1..n -> IdChars] : n \in 0..MaxNeedle}

\* Id::path below .issues/issues
IdPath(id) == <<SubSeq(id, 1, 2), SubSeq(id, 3, Len(id))>>

InitFind == Fresh(CreatedRepo) /\ expected = {}

Listed(op, d) ==
    /\ issues_dir' = d
    /\ last' = [NoCall EXCEPT !.op = op]
    /\ UNCHANGED <<repo, transaction, txn, expected, faulty, cmd>>

\* create_issue makes the directory of the new issue (create_dir_all in write_to_file)
FindCreateIssue ==
    /\ Cardinality(issues_dir.leaves) < MaxIssues
    /\ \E id \in Ids :
          /\ IdPath(id) \notin issues_dir.leaves
          /\ Listed("create_issue", [shards |-> issues_dir.shards \cup {IdPath(id)[1]},
                                     leaves |-> issues_dir.leaves \cup {IdPath(id)}])

\* the directory of an issue goes away: with its shard when that is left empty (git removes
\* the directories a reset empties), or leaving the shard (removed by hand)
FindRemoveIssue ==
    \E p \in issues_dir.leaves, prune \in BOOLEAN :
        LET left == issues_dir.leaves \ {p}
            emptied == list_dirs([issues_dir EXCEPT !.leaves = left], <<p[1]>>) = {}
        IN  Listed("remove", [shards |-> IF prune /\ emptied THEN issues_dir.shards \ {p[1]}
                                         ELSE issues_dir.shards,
                              leaves |-> left])

FindIssue ==
    /\ \E needle \in Needles :
          LET r == find_issue(issues_dir, needle)
          IN  last' = [NoCall EXCEPT !.op = "find_issue", !.arg = needle, !.res = r.res,
                                     !.ids = r.ids]
    /\ UNCHANGED <<repo, transaction, txn, expected, faulty, cmd, issues_dir>>

NextFind == FindCreateIssue \/ FindRemoveIssue \/ FindIssue

SpecFind == InitFind /\ [][NextFind]_vars

----------------------------------------------------------------------------
(* create_issue: issues are created one after the other, the first with     *)
(* every description when given at most one tag, and with every list of tags *)
(* and milestone, git never failing.  The                                    *)
(* hash of a commit is written with IdLen characters; expected holds the    *)
(* ids the calls have returned.                                              *)

\* the text of the hash of commit sha: a different text for every commit
RECURSIVE ShaDigits(_, _)
ShaDigits(sha, n) ==
    IF n = 0 THEN <<>>
    ELSE <<IF sha % 2 = 0 THEN "a" ELSE "b">> \o ShaDigits(sha \div 2, n - 1)

ShaText(sha) == ShaDigits(sha, IdLen)

\* the directories below .issues/issues, from the files of the working tree
Dirs(r) ==
    [shards |-> {IdPath(ShaText(id))[1] : id \in Issues(r)},
     leaves |-> {IdPath(ShaText(id)) : id \in Issues(r)}]

TagLists == UNION {[1..n -> StoreTags] : n \in 0..MaxTags}

InitCreate == Fresh(CreatedRepo) /\ expected = {}

CreateIssue ==
    \E ts \in TagLists, ms \in {{}} \cup {{m} : m \in StoreMilestones} :
      \E d \in IF Issues(repo) = {} /\ Len(ts) <= 1 THEN Texts(MaxDescLen) ELSE {<<"a">>} :
        /\ Room(3 + Len(ts) + Cardinality(ms))
        /\ LET r == create_issue(World(repo, 0), d, ts, ms)
           IN  /\ repo' = Repo(r.w)
               /\ issues_dir' = Dirs(Repo(r.w))
               /\ Called("create_issue", r.id, <<d, ts, ms>>, r.res)
               /\ expected' = IF r.res = "Ok" THEN expected \cup {r.id} ELSE expected
        /\ UNCHANGED <<transaction, txn, faulty, cmd>>

NextCreate == CreateIssue

SpecCreate == InitCreate /\ [][NextCreate]_vars

----------------------------------------------------------------------------
(* The close command given one or several issues, on a repository holding   *)
(* two issues, each open or closed                                           *)

\* the repository after close_issue on the issues of ids
RECURSIVE ClosedIn(_, _)
ClosedIn(r, ids) ==
    IF ids = {} THEN r
    ELSE LET id == CHOOSE x \in ids : TRUE
         IN  ClosedIn(Repo(close_issue(World(r, 0), id).w), ids \ {id})

\* two issues created one after the other, the second with the tags ts
TwoIssues(ts) ==
    LET first == Repo(create_issue(World(CreatedRepo, 0), <<"a">>, <<>>, {}).w)
    IN  Repo(create_issue(World(first, 0), <<"b">>, ts, {}).w)

\* the lists of issues a command is given: some of the issues, each once, in any order
IdLists(r) ==
    {ids \in UNION {[1..n -> Issues(r)] : n \in 1..Cardinality(Issues(r))} :
        \A i, j \in 1..Len(ids) : ids[i] = ids[j] => i = j}

InitClose ==
    /\ \E closed \in SUBSET Issues(TwoIssues(<<TagF>>)), dirt \in UserChanges :
          Fresh(Edited(ClosedIn(TwoIssues(<<TagF>>), closed), dirt))
    /\ expected = {}

CloseIssues ==
    /\ ~Stopped
    /\ \E ids \in IdLists(repo), f \in Faults(MaxCmdFault) :
          Ran("close", ids, close_execute(World(repo, f), ids), f)

NextClose == CloseIssues

SpecClose == InitClose /\ [][NextClose]_vars

----------------------------------------------------------------------------
(* The commands as they are given their issues: by needles, which they      *)
(* resolve with find_issue before anything else                              *)

\* the issue whose id is written text
IdOf(w, text) == CHOOSE id \in Issues(Repo(w)) : ShaText(id) = text

\* issue_ids.iter().map(|id| data.find_issue(id)).collect::<Result<Vec<Id>, FindError>>():
\* the ids found, up to the first needle that does not resolve
RECURSIVE find_ids(_, _, _, _)
find_ids(w, needles, ids, calls) ==
    IF needles = <<>> THEN [res |-> "Ok", ids |-> ids, calls |-> calls]
    ELSE LET found(r) ==
                 IF r.res # "Ok"
                 THEN [res |-> r.res, ids |-> ids, calls |-> Append(calls, Call("find_issue", r.res))]
                 ELSE find_ids(w, Tail(needles),
                               Append(ids, IdOf(w, CHOOSE id \in r.ids : TRUE)),
                               Append(calls, Call("find_issue", r.res)))
         IN  found(find_issue(Dirs(Repo(w)), Head(needles)))

\* the calls of a command after the calls of its resolution
After(found, r) == [r EXCEPT !.calls = found.calls \o @]

\* .map_err(PosixError::from)?: the command returns the error of the resolution
Unresolved(w, found) == Returned(w, None, found.calls, "Err")

\* a close command that starts its transaction before it resolves the ids
close_starting_first(w, issue_ids) ==
    LET resolved(s, found) ==
            IF found.res # "Ok"
            THEN Returned(s.w, s.t, <<Call("start_transaction", s.res)>> \o s.git \o found.calls,
                          "Err")
            ELSE After(found, close_execute(w, found.ids))
    IN  resolved(start_transaction(w, None), find_ids(w, issue_ids, <<>>, <<>>))

\* git-issue-close: execute, from the ids as given
close(w, issue_ids) ==
    LET resolved(found) ==
            IF found.res # "Ok" THEN Unresolved(w, found)
            ELSE After(found, close_execute(w, found.ids))
    IN  resolved(find_ids(w, issue_ids, <<>>, <<>>))

\* git-issue-tag: execute, from the id as given
tag(w, issue_id, remove, ts) ==
    LET resolved(found) ==
            IF found.res # "Ok" THEN Unresolved(w, found)
            ELSE After(found, tag_execute(w, found.ids[1], remove, ts))
    IN  resolved(find_ids(w, <<issue_id>>, <<>>, <<>>))

\* git-issue-milestone: set_cmd, from the id as given
milestone_set(w, issue_id, m) ==
    LET resolved(found) ==
            IF found.res # "Ok" THEN Unresolved(w, found)
            ELSE After(found, set_cmd(w, found.ids[1], m))
    IN  resolved(find_ids(w, <<issue_id>>, <<>>, <<>>))

\* git-issue-milestone: remove_cmd, from the id as given
milestone_remove(w, issue_id) ==
    LET resolved(found) ==
            IF found.res # "Ok" THEN Unresolved(w, found)
            ELSE After(found, remove_cmd(w, found.ids[1]))
    IN  resolved(find_ids(w, <<issue_id>>, <<>>, <<>>))

\* what a command is given as an id: the hash of an issue or of the first commit of the
\* repository (which is no issue), or the first characters of one
GivenNeedles(r) == {SubSeq(ShaText(c), 1, n) : c \in Issues(r) \cup {1}, n \in 1..IdLen}

\* a command is given one id, close one or two
NeedlePairs(r) ==
    {<<a>> : a \in GivenNeedles(r)} \cup {<<a, b>> : a, b \in GivenNeedles(r)}

InitResolve ==
    /\ \E dirt \in UserChanges : Fresh(Edited(TwoIssues(<<>>), dirt))
    /\ expected = {}

\* the command given needles returned r, the object store within its bound
Resolving(name, needles, r) ==
    /\ Len(r.w.commits) <= MaxCommits
    /\ Ran(name, needles, r, 0)

ResolveClose ==
    /\ ~Stopped
    /\ \E issue_ids \in NeedlePairs(repo) :
          Resolving("close", issue_ids, close(World(repo, 0), issue_ids))

ResolveTag ==
    /\ ~Stopped
    /\ \E issue_id \in GivenNeedles(repo), remove \in BOOLEAN, t \in Tags :
          Resolving("tag", <<issue_id>>, tag(World(repo, 0), issue_id, remove, <<t>>))

ResolveMilestoneSet ==
    /\ ~Stopped
    /\ \E issue_id \in GivenNeedles(repo), m \in Milestones :
          Resolving("milestone set", <<issue_id>>, milestone_set(World(repo, 0), issue_id, m))

ResolveMilestoneRemove ==
    /\ ~Stopped
    /\ \E issue_id \in GivenNeedles(repo) :
          Resolving("milestone remove", <<issue_id>>, milestone_remove(World(repo, 0), issue_id))

NextResolve == ResolveClose \/ ResolveTag \/ ResolveMilestoneSet \/ ResolveMilestoneRemove

SpecResolve == InitResolve /\ [][NextResolve]_vars

----------------------------------------------------------------------------
(* The list command: its filter applied to the issues of a repository that  *)
(* holds two, the first open with a tag and a milestone, the second created  *)
(* with or without them and then left, closed, or stripped of the tag open   *)

\* FilterArgs as the command line gives them; with_milestone is the Option as a set
FilterArgs(all, with_tags, without_tags, with_milestone, without_milestone) ==
    [all |-> all, with_tags |-> with_tags, without_tags |-> without_tags,
     with_milestone |-> with_milestone, without_milestone |-> without_milestone]

\* Filter::from with nothing added to the tags an issue must have
FilterFromArgsOnly(args) ==
    [milestone |-> IF args.without_milestone THEN <<"Without">>
                   ELSE IF args.with_milestone # {}
                   THEN <<"Value", CHOOSE m \in args.with_milestone : TRUE>>
                   ELSE <<"Any">>,
     with_tags |-> args.with_tags,
     without_tags |-> args.without_tags]

\* Filter::from
FilterFrom(args) ==
    [milestone |-> IF args.without_milestone THEN <<"Without">>
                   ELSE IF args.with_milestone # {}
                   THEN <<"Value", CHOOSE m \in args.with_milestone : TRUE>>
                   ELSE <<"Any">>,
     with_tags |-> IF ~args.all THEN Append(args.with_tags, OPEN) ELSE args.with_tags,
     without_tags |-> args.without_tags]

\* DataSource::all: an Issue for every directory of an issue
all(w) == Issues(Repo(w))

\* Filter::cache: the issue is dropped with an error when its tags are needed and cannot
\* be read (cache_milestone never fails)
cache(filter, w) ==
    {id \in all(w) : (filter.without_tags # <<>> \/ filter.with_tags # <<>>)
                        => read(w, id, "tags").ok}

\* Filter::apply, the closure given to filter
matches(filter, w, id) ==
    /\ \/ filter.milestone[1] = "Any"
       \/ filter.milestone[1] = "Without" /\ milestone(w, id) = {}
       \/ filter.milestone[1] = "Value" /\ milestone(w, id) = {filter.milestone[2]}
    /\ ~\E i \in 1..Len(filter.without_tags) : Contains(tags(w, id), filter.without_tags[i])
    /\ \A i \in 1..Len(filter.with_tags) : Contains(tags(w, id), filter.with_tags[i])

\* Filter::apply: the issues kept
apply(filter, w) == {id \in cache(filter, w) : matches(filter, w, id)}

\* the lists of tags and the milestone options the filter is given
ListTagLists == {<<>>, <<TagF>>, <<CLOSED>>, <<OPEN>>, <<CLOSED, TagF>>}

ListMilestones ==
    {<<{}, FALSE>>, <<{}, TRUE>>} \cup {<<{m}, FALSE>> : m \in {<<"m">>, <<"n">>}}

\* the second issue left as created, closed, or without the tag open
Shaped(r, id, shape) ==
    IF shape = "closed" THEN Repo(close_issue(World(r, 0), id).w)
    ELSE IF shape = "untagged" THEN Repo(remove_tag(World(r, 0), id, OPEN).w)
    ELSE r

InitList ==
    /\ \E ts \in {<<>>, <<TagF>>}, ms \in {{}} \cup {{m} : m \in Milestones},
          shape \in {"created", "closed", "untagged"} :
          LET first == create_issue(World(CreatedRepo, 0), <<"a">>, <<TagF>>, {<<"m">>})
              second == create_issue(first.w, <<"b">>, ts, ms)
          IN  Fresh(Shaped(Repo(second.w), second.id, shape))
    /\ expected = {}

ListIssues ==
    /\ \E all_issues \in BOOLEAN, with_tags \in ListTagLists, without_tags \in ListTagLists,
          m \in ListMilestones :
          last' = [NoCall EXCEPT
                      !.op = "list",
                      !.arg = <<all_issues, with_tags, without_tags, m[1], m[2]>>,
                      !.ids = apply(FilterFrom(FilterArgs(all_issues, with_tags, without_tags,
                                                          m[1], m[2])),
                                    World(repo, 0))]
    /\ UNCHANGED <<repo, transaction, txn, expected, faulty, cmd, issues_dir>>

NextList == ListIssues

SpecList == InitList /\ [][NextList]_vars

----------------------------------------------------------------------------
(* Issue (src/src/issues.rs): an id and six caches, each None until its      *)
(* cache step has filled it.  The commands list, milestone list and show run *)
(* on Issues of their own; a run is the world, the Issues, the cache steps   *)
(* and reads made so far, each with its outcome, and "panic" once a read has *)
(* aborted the process.                                                      *)

Fields == {"cdate", "comments", "ddate", "desc", "milestone", "tags"}

\* Issue::new
IssueNew(id) == [id |-> id, inner |-> [f \in Fields |-> None]]

\* a file read by a cache step: the read is a step that can fail
cache_read(w, id, file) ==
    [w |-> Tick(w), ok |-> ~Fails(w) /\ read(w, id, file).ok, text |-> read(w, id, file).text]

\* the value a cache step finds (ok: the step returns Ok and fills the cache)
Fetched(w, ok, value) == [w |-> w, ok |-> ok, value |-> value]

\* Issue::cache_cdate, cache_comments, cache_ddate, cache_desc, cache_milestone, cache_tags
\* without the test for a filled cache
fetch(w, id, f) ==
    LET file(r) ==
            IF f = "desc" THEN Fetched(r.w, r.ok, r.text)
            ELSE IF f = "tags" THEN Fetched(r.w, r.ok, Lines(Trim(r.text)))
            ELSE Fetched(r.w, TRUE, IF r.ok THEN Some(r.text) ELSE None)
    IN  IF f = "cdate" THEN Fetched(Tick(w), ~Fails(w), id)     \* git show --format=%aI
        ELSE IF f = "comments" THEN Fetched(w, TRUE, <<>>)
        ELSE IF f = "ddate" THEN file(cache_read(w, id, "duedate"))
        ELSE IF f = "desc" THEN file(cache_read(w, id, "description"))
        ELSE file(cache_read(w, id, f))

\* Issue::cache_<f>: fills the cache when it is None and the value could be had
cache_field(w, issue, f) ==
    LET got(r) == [w |-> r.w, ok |-> r.ok,
                   issue |-> IF r.ok THEN [issue EXCEPT !.inner[f] = Some(r.value)] ELSE issue]
    IN  IF issue.inner[f] # None THEN [w |-> w, ok |-> TRUE, issue |-> issue]
        ELSE got(fetch(w, issue.id, f))

\* Issue::cdate, comments, ddate, desc, milestone, tags: self.inner_<f>.as_ref().expect(..)
Expect(issue, f) ==
    IF issue.inner[f] = None THEN [res |-> "panic", value |-> <<>>]
    ELSE [res |-> "Ok", value |-> issue.inner[f][1]]

Run(w, is, steps, res) == [w |-> w, is |-> is, steps |-> steps, res |-> res]

Aborted(r) == r.res = "panic"

\* the cache step of field f on the i-th Issue of the run
CacheStep(r, i, f) ==
    LET done(c) ==
            [run |-> Run(c.w, [r.is EXCEPT ![i] = c.issue],
                         Append(r.steps, <<"cache", f, r.is[i].id, IF c.ok THEN "Ok" ELSE "Err">>),
                         r.res),
             ok |-> c.ok]
    IN  IF Aborted(r) THEN [run |-> r, ok |-> FALSE]
        ELSE done(cache_field(r.w, r.is[i], f))

\* the read of field f of the i-th Issue of the run
ReadStep(r, i, f) ==
    LET done(v) ==
            [run |-> Run(r.w, r.is, Append(r.steps, <<"read", f, r.is[i].id, v.res>>),
                         IF v.res = "panic" THEN "panic" ELSE r.res),
             value |-> v.value]
    IN  IF Aborted(r) THEN [run |-> r, value |-> <<>>]
        ELSE done(Expect(r.is[i], f))

\* the cache steps of `fields` on the i-th Issue, in order, up to the first that fails
RECURSIVE CacheFields(_, _, _)
CacheFields(r, i, fields) ==
    IF fields = <<>> THEN [run |-> r, ok |-> ~Aborted(r)]
    ELSE LET next(c) == IF ~c.ok THEN c ELSE CacheFields(c.run, i, Tail(fields))
         IN  next(CacheStep(r, i, Head(fields)))

\* the cache steps of `fields` on each Issue of idxs: the Issues whose steps all succeeded
\* are kept, the others are dropped with their error
RECURSIVE CacheEach(_, _, _, _)
CacheEach(r, idxs, fields, kept) ==
    IF idxs = <<>> THEN [run |-> r, kept |-> kept]
    ELSE LET next(c) == CacheEach(c.run, Tail(idxs), fields,
                                  IF c.ok THEN Append(kept, Head(idxs)) ELSE kept)
         IN  next(CacheFields(r, Head(idxs), fields))

\* Filter::cache keeping the Issues whose cache step failed
FilterCacheKeepingAll(r, idxs, filter) ==
    [run |-> CacheEach(r, idxs,
                       (IF filter.milestone[1] # "Any" THEN <<"milestone">> ELSE <<>>)
                       \o (IF filter.without_tags # <<>> \/ filter.with_tags # <<>>
                           THEN <<"tags">> ELSE <<>>),
                       <<>>).run,
     kept |-> idxs]

\* Filter::cache
FilterCache(r, idxs, filter) ==
    CacheEach(r, idxs,
              (IF filter.milestone[1] # "Any" THEN <<"milestone">> ELSE <<>>)
              \o (IF filter.without_tags # <<>> \/ filter.with_tags # <<>>
                  THEN <<"tags">> ELSE <<>>),
              <<>>)

\* the loops of the closure of Filter::apply over without_tags (the Issue fails when it
\* has the tag) and over with_tags (it fails when it has not)
RECURSIVE TagLoop(_, _, _, _)
TagLoop(r, i, ts, without) ==
    IF ts = <<>> THEN [run |-> r, pass |-> ~Aborted(r)]
    ELSE LET seen(v) ==
                 IF Aborted(v.run) \/ Contains(v.value, Head(ts)) = without
                 THEN [run |-> v.run, pass |-> FALSE]
                 ELSE TagLoop(v.run, i, Tail(ts), without)
         IN  seen(ReadStep(r, i, "tags"))

\* the closure of Filter::apply on the i-th Issue
FilterClosure(r, i, filter) ==
    LET tagged(t) == IF ~t.pass THEN t ELSE TagLoop(t.run, i, filter.with_tags, FALSE)
        milestoned(m) ==
            IF ~m.pass THEN m ELSE tagged(TagLoop(m.run, i, filter.without_tags, TRUE))
        read_milestone(v) ==
            [run |-> v.run,
             pass |-> /\ ~Aborted(v.run)
                      /\ IF filter.milestone[1] = "Without" THEN v.value = None
                         ELSE v.value = Some(filter.milestone[2])]
    IN  milestoned(IF filter.milestone[1] = "Any" THEN [run |-> r, pass |-> TRUE]
                   ELSE read_milestone(ReadStep(r, i, "milestone")))

RECURSIVE FilterEach(_, _, _, _)
FilterEach(r, idxs, filter, kept) ==
    IF idxs = <<>> THEN [run |-> r, kept |-> kept]
    ELSE LET next(c) == FilterEach(c.run, Tail(idxs), filter,
                                   IF c.pass THEN Append(kept, Head(idxs)) ELSE kept)
         IN  next(FilterClosure(r, Head(idxs), filter))

\* Filter::apply on the Issues of the run
FilterApply(r, idxs, filter) ==
    LET cached(c) == FilterEach(c.run, c.kept, filter, <<>>)
    IN  cached(FilterCache(r, idxs, filter))

\* the reads of field f of each Issue of idxs
RECURSIVE ReadEach(_, _, _)
ReadEach(r, idxs, f) ==
    IF idxs = <<>> THEN r ELSE ReadEach(ReadStep(r, Head(idxs), f).run, Tail(idxs), f)

\* the order of the sort keys: cmp of OffsetDateTime, String and Option<String>
KeyLess(f, a, b) ==
    IF f = "cdate" THEN a < b
    ELSE IF f = "desc" THEN StrLess(a, b)
    ELSE IF f = "milestone" THEN (a = None /\ b # None) \/ (a # None /\ b # None /\ StrLess(a[1], b[1]))
    ELSE FALSE

\* sort_unstable_by: idxs ordered by the sort key read from each Issue
RECURSIVE SortedBy(_, _, _)
SortedBy(r, idxs, f) ==
    IF idxs = <<>> THEN <<>>
    ELSE LET rest == SortedBy(r, Tail(idxs), f)
             key(i) == Expect(r.is[i], f).value
             before == {k \in 1..Len(rest) : ~KeyLess(f, key(Head(idxs)), key(rest[k]))
                                             /\ key(rest[k]) # key(Head(idxs))}
             n == Cardinality(before)
         IN  SubSeq(rest, 1, n) \o <<Head(idxs)>> \o SubSeq(rest, n + 1, Len(rest))

Reversed(s) == [i \in 1..Len(s) |-> s[Len(s) + 1 - i]]

\* SortKey of the list command as the field it sorts by
SortKeys == {"cdate", "ddate", "desc", "milestone"}

\* execute of git-issue-list, `if let Some(sort) = select.order`
Sorted(r, idxs, order) ==
    LET compared(c) ==
            LET rd == IF Len(c.kept) > 1 THEN ReadEach(c.run, c.kept, CHOOSE k \in order : TRUE)
                      ELSE c.run
            IN  [run |-> rd,
                 kept |-> IF Aborted(rd) THEN <<>>
                          ELSE SortedBy(rd, c.kept, CHOOSE k \in order : TRUE)]
    IN  IF order = {} THEN [run |-> r, kept |-> idxs]
        ELSE compared(CacheEach(r, idxs, <<CHOOSE k \in order : TRUE>>, <<>>))

\* PlaceHolders of a format string: the field a place holder shows, or "id" and "text"
\* that show none
PlaceHolders == Fields \cup {"id", "text"}

\* FormatString::format on the i-th Issue: every field is cached before it is read, and
\* left out with an error when the cache step fails
RECURSIVE Format(_, _, _)
Format(r, i, phs) ==
    IF phs = <<>> THEN r
    ELSE IF Head(phs) \notin Fields THEN Format(r, i, Tail(phs))
    ELSE LET cached(c) ==
                 IF ~c.ok THEN Format(c.run, i, Tail(phs))
                 ELSE Format(ReadStep(c.run, i, Head(phs)).run, i, Tail(phs))
         IN  cached(CacheStep(r, i, Head(phs)))

RECURSIVE FormatEach(_, _, _)
FormatEach(r, idxs, phs) ==
    IF idxs = <<>> THEN r ELSE FormatEach(Format(r, Head(idxs), phs), Tail(idxs), phs)

\* the ids of a set, one after the other
RECURSIVE InOrder(_)
InOrder(S) ==
    IF S = {} THEN <<>>
    ELSE LET least == CHOOSE x \in S : \A y \in S : x <= y
         IN  <<least>> \o InOrder(S \ {least})

\* DataSource::all as the commands take it: an Issue::new for every issue directory
AllIssues(w) == [i \in 1..Cardinality(all(w)) |-> IssueNew(InOrder(all(w))[i])]

Indexes(is) == [i \in 1..Len(is) |-> i]

\* what a reading command leaves: its run and the ids of the Issues it has shown
Shown(r, idxs) == [run |-> r, ids |-> [k \in 1..Len(idxs) |-> r.is[idxs[k]].id]]

\* git-issue-list: execute
list_execute(w, args, order, reverse, projection) ==
    LET printed(s) ==
            Shown(FormatEach(s.run, IF reverse THEN Reversed(s.kept) ELSE s.kept, projection),
                  IF reverse THEN Reversed(s.kept) ELSE s.kept)
        filtered(f) == printed(Sorted(f.run, f.kept, order))
    IN  filtered(FilterApply(Run(w, AllIssues(w), <<>>, "Ok"), Indexes(AllIssues(w)),
                             FilterFrom(args)))

\* Issue::is_closed on the i-th Issue
IsClosedStep(r, i) ==
    LET seen(v) == [run |-> v.run, closed |-> ~Aborted(v.run) /\ Contains(v.value, CLOSED)]
    IN  seen(ReadStep(r, i, "tags"))

\* git-issue-milestone: list_cmd, the closure `match (issue.milestone(), issue.is_closed())`
RECURSIVE MilestoneEach(_, _)
MilestoneEach(r, idxs) ==
    IF idxs = <<>> THEN r
    ELSE MilestoneEach(IsClosedStep(ReadStep(r, Head(idxs), "milestone").run, Head(idxs)).run,
                       Tail(idxs))

\* git-issue-milestone: list_cmd
list_cmd(w) ==
    LET tagged(c) == Shown(MilestoneEach(c.run, c.kept), c.kept)
        milestoned(c) == tagged(CacheEach(c.run, c.kept, <<"tags">>, <<>>))
    IN  milestoned(CacheEach(Run(w, AllIssues(w), <<>>, "Ok"), Indexes(AllIssues(w)),
                             <<"milestone">>, <<>>))

\* git-issue-show: issue.cache_<f>().expect(..) and the read that follows, for each field
RECURSIVE ShowFields(_, _)
ShowFields(r, fields) ==
    IF fields = <<>> \/ Aborted(r) THEN r
    ELSE LET cached(c) ==
                 IF ~c.ok THEN [c.run EXCEPT !.res = "panic"]
                 ELSE ShowFields(ReadStep(c.run, 1, Head(fields)).run, Tail(fields))
         IN  cached(CacheStep(r, 1, Head(fields)))

\* git-issue-show: execute, on the Issue that data.find returned
show_execute(w, id, comments) ==
    LET shown(r) ==
            IF ~comments \/ Aborted(r) THEN r
            ELSE ReadStep(CacheStep(r, 1, "comments").run, 1, "comments").run
    IN  Shown(shown(ShowFields(Run(w, <<IssueNew(id)>>, <<>>, "Ok"),
                               <<"cdate", "milestone", "ddate", "tags", "desc">>)),
              <<1>>)

\* a property file of the second issue deleted from the working tree, or none
MissingFiles(id) == {{}, {<<PathOf(id, "tags"), {}>>}, {<<PathOf(id, "description"), {}>>}}

InitIssue ==
    /\ \E shape \in {"created", "closed"} :
          LET first == create_issue(World(CreatedRepo, 0), <<"b">>, <<TagF>>, {<<"m">>})
              second == create_issue(first.w, <<"a">>, <<>>, {})
          IN  \E gone \in MissingFiles(second.id) :
                  Fresh(Edited(Shaped(Repo(second.w), second.id, shape), gone))
    /\ expected = {}

\* the filters, orders and format strings the list command is given
IssueFilters ==
    {FilterArgs(a, wt, wo, m[1], m[2]) :
        a \in BOOLEAN, wt \in {<<>>, <<TagF>>}, wo \in {<<>>, <<CLOSED>>}, m \in ListMilestones}

Orders == {{}} \cup {{k} : k \in SortKeys}

Projections ==
    {<<"id", "text", "desc">>, <<"id", "cdate", "tags", "desc">>, <<"milestone", "ddate">>}

\* a reading command has run: r is what it returns, f the step it was made to fail at
Read(name, r, f) ==
    /\ cmd' = [name |-> name, id |-> r.ids, calls |-> r.run.steps, res |-> r.run.res]
    /\ last' = [NoCall EXCEPT !.op = name, !.arg = <<f>>]
    /\ UNCHANGED <<repo, transaction, txn, expected, faulty, issues_dir>>

\* The commands change nothing, so that one run from each repository shows them all.
ListCmd ==
    /\ cmd = NoCmd
    /\ \E args \in IssueFilters, order \in Orders, reverse \in BOOLEAN,
          projection \in Projections, f \in 0..MaxFault :
          Read("list", list_execute(World(repo, f), args, order, reverse, projection), f)

MilestoneListCmd ==
    /\ cmd = NoCmd
    /\ \E f \in 0..MaxFault : Read("milestone list", list_cmd(World(repo, f)), f)

ShowCmd ==
    /\ cmd = NoCmd
    /\ \E id \in Issues(repo), comments \in BOOLEAN, f \in 0..MaxFault :
          Read("show", show_execute(World(repo, f), id, comments), f)

\* a client of the library makes an Issue, caches some of its fields and reads one
IssueRead ==
    /\ cmd = NoCmd
    /\ \E id \in Issues(repo), fs \in UNION {[1..n -> Fields] : n \in 0..2}, field \in Fields,
          f \in 0..MaxFault :
          Read("Issue",
               Shown(ReadStep(CacheFields(Run(World(repo, f), <<IssueNew(id)>>, <<>>, "Ok"),
                                          1, fs).run, 1, field).run, <<1>>),
               f)

NextIssue == ListCmd \/ MilestoneListCmd \/ ShowCmd \/ IssueRead

SpecIssue == InitIssue /\ [][NextIssue]_vars

----------------------------------------------------------------------------
(* The property writes, each called on its own by a client of the library on *)
(* a repository of two issues, with what the user has changed outside the    *)
(* tracker left in the working tree or staged, and with git steps failing    *)

\* `git add -A` by the user: the index holds what the working tree holds
Staged(r, staged) == IF staged THEN [r EXCEPT !.index = r.wt] ELSE r

InitWrite ==
    /\ \E ts \in {<<>>, <<TagF>>}, dirt \in UserChanges, staged \in BOOLEAN :
          LET first == create_issue(World(CreatedRepo, 0), <<"a">>, <<>>, {<<"m">>})
              second == create_issue(first.w, <<"b">>, ts, {})
          IN  Fresh(Staged(Edited(Repo(second.w), dirt), staged))
    /\ expected = {}

\* the writes go on while the object store has room for the commit of one more
RoomToWrite == Len(repo.commits) <= MaxCommits

WriteAddTag ==
    /\ RoomToWrite
    /\ \E id \in Issues(repo), tg \in Tags, f \in Faults(MaxFault) :
          LET r == add_tag(World(repo, f), id, tg)
          IN  Charged(f, r.w) /\ Wrote("add_tag", id, tg, r)
    /\ UNCHANGED <<expected, cmd>>

WriteRemoveTag ==
    /\ RoomToWrite
    /\ \E id \in Issues(repo), tg \in Tags, f \in Faults(MaxFault) :
          LET r == remove_tag(World(repo, f), id, tg)
          IN  Charged(f, r.w) /\ Wrote("remove_tag", id, tg, r)
    /\ UNCHANGED <<expected, cmd>>

WriteAddMilestone ==
    /\ RoomToWrite
    /\ \E id \in Issues(repo), m \in Milestones, f \in Faults(MaxFault) :
          LET r == add_milestone(World(repo, f), id, m)
          IN  Charged(f, r.w) /\ Wrote("add_milestone", id, m, r)
    /\ UNCHANGED <<expected, cmd>>

WriteRemoveMilestone ==
    /\ RoomToWrite
    /\ \E id \in Issues(repo), f \in Faults(MaxFault) :
          LET r == remove_milestone(World(repo, f), id)
          IN  Charged(f, r.w) /\ Wrote("remove_milestone", id, <<>>, r)
    /\ UNCHANGED <<expected, cmd>>

WriteEditDescription ==
    /\ RoomToWrite
    /\ \E id \in Issues(repo), d \in {<<"a">>, <<"c">>}, f \in Faults(MaxFault) :
          LET r == edit_description(World(repo, f), id, d)
          IN  Charged(f, r.w) /\ Wrote("edit_description", id, d, r)
    /\ UNCHANGED <<expected, cmd>>

NextWrite ==
    \/ WriteAddTag
    \/ WriteRemoveTag
    \/ WriteAddMilestone
    \/ WriteRemoveMilestone
    \/ WriteEditDescription

SpecWrite == InitWrite /\ [][NextWrite]_vars

----------------------------------------------------------------------------
(* The library calls of Spec and create_issue, on a repository holding an    *)
(* issue, where the user has changed files outside the tracker and has       *)
(* staged the changes or not                                                 *)

InitStaged ==
    /\ \E dirt \in UserChanges \ {{}}, staged \in BOOLEAN :
          Fresh(Staged(Edited(RepoWithIssue(CreatedRepo, <<"a">>, <<>>, {}), dirt), staged))
    /\ expected = {}

StagedCreateIssue ==
    /\ ~Stopped /\ Room(3)
    /\ \E f \in Faults(MaxFault) :
          LET r == create_issue(World(repo, f), <<"a">>, <<>>, {})
          IN  /\ Charged(f, r.w)
              /\ Wrote("create_issue", r.id, <<"a">>, r)
    /\ UNCHANGED <<expected, cmd>>

NextStaged ==
    \/ StartTransaction
    \/ AddTag
    \/ StagedCreateIssue
    \/ FinishTransaction
    \/ RollbackTransaction

SpecStaged == InitStaged /\ [][NextStaged]_vars

----------------------------------------------------------------------------
(* Id::path and Id::from on whole paths: a path is the list of its           *)
(* components, and Path::join of an empty name adds no component             *)

ISSUES == <<"issues">>

\* Path::join
PathJoin(p, name) == IF name = <<>> THEN p ELSE Append(p, name)

\* Id::path(&self, path)
IdPathIn(id, root) == PathJoin(PathJoin(PathJoin(root, ISSUES), IdPath(id)[1]), IdPath(id)[2])

\* Id::from(&PathBuf) on a whole path: path.parent().file_name() and path.file_name()
IdFromPath(p) == IdFrom(<<p[Len(p) - 1], p[Len(p)]>>)

\* the identifiers Id::path is given, of two characters and more, and the roots
LongIds == UNION {[1..n -> IdChars] : n \in 2..MaxIdLen}

Roots == {<<>>, <<<<"a">>>>, <<<<"a">>, <<"b", "b">>>>}

InitId == Fresh(CreatedRepo) /\ expected = {}

\* Id::path of an identifier and Id::from of the path it gives
IdRoundTrip ==
    /\ \E id \in LongIds, root \in Roots :
          last' = [NoCall EXCEPT
                      !.op = "path",
                      !.arg = <<id, root, IdPathIn(id, root), IdFromPath(IdPathIn(id, root))>>]
    /\ UNCHANGED <<repo, transaction, txn, expected, faulty, cmd, issues_dir>>

NextId == IdRoundTrip

SpecId == InitId /\ [][NextId]_vars

----------------------------------------------------------------------------
(* Claims about the transaction coordinator, under Spec *)

EndCalls == {"finish_transaction", "finish_transaction_without_merge", "rollback_transaction"}

\* the commits made since the open transaction was started
Intermediate == (txn.base + 1)..Len(repo.commits)

RollbackRestoresHead ==
    [][(last'.op = "rollback_transaction" /\ last'.res = "Ok") =>
          /\ repo'.head = transaction[1].start_sha
          /\ repo'.commits = repo.commits
          /\ Intermediate \cap Ancestors(repo'.commits, repo'.head) = {}]_vars

RollbackWitness ==
    /\ last.op = "rollback_transaction" /\ last.res = "Ok"
    /\ txn.applied >= 1 /\ faulty >= 1
    /\ Len(repo.commits) > txn.base
    /\ repo.head <= txn.base

\* C3: when the working tree had uncommitted changes at start_transaction, then after a
\* successful finish_transaction, finish_transaction_without_merge or rollback_transaction
\* the uncommitted changes are exactly those, and the stash list is as long as before the
\* start.
StashSafety ==
    [][(last'.op \in EndCalls /\ last'.res = "Ok" /\ txn.changes # {}) =>
          /\ Changes(World(repo', 0)) = txn.changes
          /\ Len(repo'.stash) = txn.stash]_vars

\* C4: start_transaction on a DataSource whose transaction is open fails, makes no stash
\* and leaves the recorded transaction as it was.
StartWhileOpenFailsFast ==
    [][(last'.op = "start_transaction" /\ transaction # None) =>
          /\ last'.res # "Ok"
          /\ repo'.stash = repo.stash
          /\ transaction' = transaction]_vars

----------------------------------------------------------------------------
(* Claims about the commands, under SpecCmd *)

WriteCalls ==
    {"create_issue", "close_issue", "add_tag", "remove_tag", "add_milestone", "remove_milestone"}

Started == cmd.calls # <<>> /\ cmd.calls[1] = Call("start_transaction", "Ok")

\* C5: every write a command makes, and every finish or rollback, comes after a
\* start_transaction of that command that succeeded.
CommandWritesInsideTransaction ==
    \A i \in 1..Len(cmd.calls) :
        cmd.calls[i][1] \in WriteCalls \cup EndCalls =>
            \E j \in 1..(i - 1) : cmd.calls[j] = Call("start_transaction", "Ok")

\* C6: a command whose start_transaction succeeded makes exactly one call of finish_transaction,
\* finish_transaction_without_merge or rollback_transaction before it returns; when a write or
\* the reading of the title failed that call is rollback_transaction; and when the call
\* succeeded the DataSource holds no transaction.
CommandEndsTransaction ==
    Started =>
        LET ends == {i \in 1..Len(cmd.calls) : cmd.calls[i][1] \in EndCalls}
            failed == \E i \in 1..Len(cmd.calls) :
                         /\ cmd.calls[i][1] \in WriteCalls \cup {"title"}
                         /\ cmd.calls[i][2] = "Err"
        IN  /\ Cardinality(ends) = 1
            /\ \A i \in ends :
                  /\ failed => cmd.calls[i][1] = "rollback_transaction"
                  /\ cmd.calls[i][2] = "Ok" => transaction = None

----------------------------------------------------------------------------
(* Claims about the property store, under SpecStore and SpecDesc *)

\* C7: add_tag of a tag the issue has and remove_tag of a tag it has not return NoChanges
\* and leave the repository (commits, head, index, files) as it was.
TagNoChanges ==
    [][LET had == Contains(tags(World(repo, 0), last'.id), last'.arg)
       IN  ((last'.op = "add_tag" /\ had) \/ (last'.op = "remove_tag" /\ ~had)) =>
               last'.res = "NoChanges" /\ repo' = repo]_vars

TagNoChangesWitness ==
    /\ last.op = "add_tag" /\ last.res = "NoChanges" /\ last.arg = TagF
    /\ Len(Lines(repo.wt[PathOf(last.id, "tags")])) >= 2

\* C8: add_milestone with the milestone the issue has and remove_milestone of an issue that
\* has none return NoChanges and leave the repository (head, files) as it was.
MilestoneNoChanges ==
    [][LET set == milestone(World(repo, 0), last'.id)
       IN  ((last'.op = "add_milestone" /\ set = {last'.arg})
            \/ (last'.op = "remove_milestone" /\ set = {})) =>
               last'.res = "NoChanges" /\ repo' = repo]_vars

MilestoneNoChangesWitness ==
    /\ last.op = "add_milestone" /\ last.res = "NoChanges"
    /\ At(repo.wt, PathOf(last.id, "milestone")) = {last.arg \o NL}

\* C9: after any sequence of add_tag and remove_tag on a newly created issue the lines of
\* the tags file ascend strictly (sorted, no duplicates) and tags(id) is the set the
\* operations give when applied in order to the tags the issue was created with.
TagsFileSortedAndExact ==
    \A id \in Issues(repo) :
        LET ls == Lines(repo.wt[PathOf(id, "tags")])
        IN  /\ \A i \in 1..(Len(ls) - 1) : StrLess(ls[i], ls[i + 1])
            /\ Range(tags(World(repo, 0), id)) = expected

\* the text before the first line break ("\n" or "\r\n") of s
BeforeLineBreak(s) ==
    LET breaks == {i \in 1..Len(s) : s[i] = "\n"}
        first == CHOOSE i \in breaks : \A j \in breaks : i <= j
    IN  IF breaks = {} THEN s
        ELSE IF first > 1 /\ s[first - 1] = "\r" THEN SubSeq(s, 1, first - 2)
        ELSE SubSeq(s, 1, first - 1)

\* C10: after new_description or edit_description with text d the description file is d
\* without its trailing white space plus one newline, so it ends with exactly one newline;
\* reading it back gives the file's text without that newline; and title(id) is the text
\* before the first line break of the description read back.
DescriptionRoundTrip ==
    last.op \in {"create_issue", "edit_description"} =>
        LET file == repo.wt[PathOf(last.id, "description")]
            n == Len(file)
            back == read(World(repo, 0), last.id, "description")
        IN  /\ n >= 1 /\ file[n] = "\n"
            /\ n >= 2 => file[n - 1] # "\n"
            /\ n - 1 <= Len(last.arg)
            /\ SubSeq(file, 1, n - 1) = SubSeq(last.arg, 1, n - 1)
            /\ \A i \in n..Len(last.arg) : IsWhitespace(last.arg[i])
            /\ back.ok /\ back.text = SubSeq(file, 1, n - 1)
            /\ title(World(repo, 0), last.id).text = BeforeLineBreak(back.text)

DescriptionRoundTripWitness ==
    /\ last.op = "edit_description" /\ last.res = "Ok"
    /\ Len(read(World(repo, 0), last.id, "description").text) < Len(last.arg)
    /\ title(World(repo, 0), last.id).text # read(World(repo, 0), last.id, "description").text



----------------------------------------------------------------------------
(* Claims about the errors of the transaction coordinator, under Spec *)

\* the git steps of the last call that failed
FailedSteps == {last.git[i][1] : i \in {j \in 1..Len(last.git) : last.git[j][2] = "Err"}}

\* C11: when a git step of finish_transaction or rollback_transaction fails, the call
\* returns, for a failed reset, Reset when stash_before is false and ResetUnstash when it
\* is true; for a failed merge (finish only), Merge when stash_before is false and
\* MergeUnstash when it is true; for a failed stash pop, Unstash.
ErrorNamesStepAndStash ==
    [][(last'.op \in {"finish_transaction", "rollback_transaction"} /\ FailedSteps' # {}) =>
          LET stash_before == transaction[1].stash_before
          IN  /\ Cardinality(FailedSteps') = 1
              /\ "reset_hard" \in FailedSteps' =>
                    last'.res = IF stash_before THEN "ResetUnstash" ELSE "Reset"
              /\ "merge" \in FailedSteps' =>
                    /\ last'.op = "finish_transaction"
                    /\ last'.res = IF stash_before THEN "MergeUnstash" ELSE "Merge"
              /\ "stash_pop" \in FailedSteps' => last'.res = "Unstash"]_vars

ErrorNamesStepWitness ==
    /\ last.op = "finish_transaction" /\ last.res = "MergeUnstash"
    /\ last.git = <<GitCall("reset_hard", TRUE), GitCall("merge", FALSE)>>
    /\ transaction # None /\ transaction[1].stash_before /\ repo.stash # <<>>

\* the message holds the literal text s
HasText(msg, s) == \E i \in 1..Len(msg) : msg[i][1] = "text" /\ msg[i][2] = s

ResetAndMergeFailures == {"Reset", "ResetUnstash", "Merge", "MergeUnstash"}

\* C12: the message of every failure of finish_transaction or rollback_transaction holds
\* `git reset --hard` when the reset or the merge failed, and holds `git stash pop` exactly
\* when start_transaction made a stash, which is then still to be popped.
RecoveryCommandsInMessage ==
    [][(/\ last'.op \in {"finish_transaction", "rollback_transaction"}
        /\ last'.res \in ResetAndMergeFailures \cup {"Unstash"}) =>
          /\ last'.res \in ResetAndMergeFailures => HasText(last'.msg, RESET_HARD)
          /\ HasText(last'.msg, STASH_POP) <=> transaction[1].stash_before]_vars

\* C13: in the message of every Reset, ResetUnstash, Merge and MergeUnstash error of
\* finish_transaction and rollback_transaction, what follows `git reset --hard` is the
\* start_sha of the transaction.
ResetCommandNamesStartSha ==
    [][(/\ last'.op \in {"finish_transaction", "rollback_transaction"}
        /\ last'.res \in ResetAndMergeFailures) =>
          \A i \in 1..Len(last'.msg) :
              (last'.msg[i][1] = "text" /\ last'.msg[i][2] = RESET_HARD) =>
                  /\ i < Len(last'.msg)
                  /\ last'.msg[i + 1][1] = "arg"
                  /\ last'.msg[i + 1][2][1] = "commit"
                  /\ last'.msg[i + 1][2][2] = transaction[1].start_sha]_vars

\* C15: rollback_transaction, finish_transaction and finish_transaction_without_merge on a
\* DataSource without a transaction return NotStarted, make no git step and leave the
\* repository (head, working tree, stash list) as it was.
EndWithoutTransactionNotStarted ==
    [][(last'.op \in EndCalls /\ transaction = None) =>
          /\ last'.res = "NotStarted"
          /\ last'.git = <<>>
          /\ repo' = repo]_vars

\* C16: start_transaction on a branch whose head resolves to no commit returns
\* BareRepository, makes no stash and leaves the DataSource without the transaction.
StartOnUnresolvedHead ==
    [][(last'.op = "start_transaction" /\ repo.head = 0) =>
          /\ last'.res = "BareRepository"
          /\ repo'.stash = repo.stash
          /\ transaction' = transaction]_vars

\* C17: start_transaction on a DataSource without a transaction, when it succeeds, records
\* the head as start_sha and stash_before true exactly when the working tree was not clean,
\* leaves the working tree clean and the head where it was, and has stashed exactly when the
\* tree was not clean; when it fails the stash step failed, it returns StashingError and the
\* DataSource has no transaction.
StartRecordsHeadAndStash ==
    [][(last'.op = "start_transaction" /\ transaction = None) =>
          LET dirty == ~is_clean(World(repo, 0))
          IN  /\ last'.res = "Ok" =>
                    /\ transaction' = Some([start_sha |-> repo.head, stash_before |-> dirty])
                    /\ is_clean(World(repo', 0))
                    /\ repo'.head = repo.head
                    /\ Len(repo'.stash) = Len(repo.stash) + (IF dirty THEN 1 ELSE 0)
              /\ last'.res # "Ok" =>
                    /\ last'.res = "StashingError"
                    /\ last'.git = <<GitCall("stash_almost_all", FALSE)>>
                    /\ dirty
                    /\ transaction' = None]_vars

StartRecordsWitness ==
    /\ last.op = "start_transaction" /\ last.res = "Ok"
    /\ transaction # None /\ transaction[1].stash_before
    /\ transaction[1].start_sha = repo.head
    /\ txn.changes # {} /\ Len(repo.stash) = txn.stash + 1

----------------------------------------------------------------------------
(* Claims about the milestone commands, under SpecCmd *)

\* the calls and git steps of the log with one of the names
CallsOf(calls, names) == {i \in 1..Len(calls) : calls[i][1] \in names}

\* C14: a milestone set or remove command that calls finish_transaction_without_merge (its
\* write was applied) makes no reset and no merge; it pops the stash exactly when its
\* start_transaction stashed; when it returns Ok the DataSource holds no transaction; and the
\* branch is one commit ahead of where it was: the write's commit, whose only parent is the
\* head the command found.
MilestoneFinishWithoutMerge ==
    [][(/\ cmd'.name \in {"milestone set", "milestone remove"}
        /\ CallsOf(cmd'.calls, {"finish_transaction_without_merge"}) # {}) =>
          LET stashed == CallsOf(cmd'.calls, {"stash_almost_all"}) # {}
              N == Len(repo.commits) + 1
          IN  /\ CallsOf(cmd'.calls, {"reset_hard", "merge"}) = {}
              /\ Cardinality(CallsOf(cmd'.calls, {"stash_pop"})) = (IF stashed THEN 1 ELSE 0)
              /\ cmd'.res = "Ok" => transaction' = None /\ repo'.stash = repo.stash
              /\ Len(repo'.commits) = N
              /\ repo'.commits = Append(repo.commits, repo'.commits[N])
              /\ repo'.commits[N].parents = <<repo.head>>
              /\ repo'.head = N]_vars

MilestoneFinishWitness ==
    /\ cmd.name = "milestone set" /\ cmd.res = "Ok"
    /\ cmd.calls = <<Call("start_transaction", "Ok"), GitCall("stash_almost_all", TRUE),
                     Call("add_milestone", "Applied"),
                     Call("finish_transaction_without_merge", "Ok"), GitCall("stash_pop", TRUE)>>
    /\ Len(repo.commits[repo.head].parents) = 1
    /\ transaction = None

----------------------------------------------------------------------------
(* Claims about find_issue, under SpecFind *)

\* the ids of the issue directories of a shard
IdsOfShard(shard) == {p[1] \o p[2] : p \in {q \in issues_dir.leaves : q[1] = shard}}

\* what the rule of zero, one or several candidates gives
Resolved(ids) ==
    /\ ids = {} => last.res = "NotFound"
    /\ Cardinality(ids) = 1 => last.res = "Ok"
    /\ Cardinality(ids) > 1 => last.res = "MultipleFound"
    /\ last.ids = ids

\* C18: find_issue with a needle of two characters gives NotFound when the shard of that
\* name does not exist or holds no issue directory, the issue when it holds one, and
\* MultipleFound with every issue of the shard when it holds several.
FindByTwoChars ==
    (last.op = "find_issue" /\ Len(last.arg) = 2) => Resolved(IdsOfShard(last.arg))

FindByTwoCharsWitness ==
    /\ last.op = "find_issue" /\ Len(last.arg) = 2
    /\ last.res = "MultipleFound" /\ Cardinality(last.ids) = 2
    /\ \E s \in issues_dir.shards : s # last.arg

FindByPrefix ==
    (last.op = "find_issue" /\ Len(last.arg) >= 3) =>
        LET needle == last.arg
            shard == SubSeq(needle, 1, 2)
            rest == SubSeq(needle, 3, Len(needle))
        IN  IF <<shard, rest>> \in issues_dir.leaves
            THEN last.res = "Ok" /\ last.ids = {needle}
            ELSE Resolved({id \in IdsOfShard(shard) :
                              /\ Len(id) >= Len(needle)
                              /\ \A i \in 1..Len(needle) : id[i] = needle[i]})

FindByPrefixWitness ==
    /\ last.op = "find_issue" /\ Len(last.arg) = 3
    /\ last.res = "Ok" /\ last.ids # {last.arg}
    /\ Cardinality(IdsOfShard(SubSeq(last.arg, 1, 2))) = 2

\* C21: find_issue gives NotFound when no issue directory exists at all, whatever the
\* length of the needle, and a MultipleFound it gives carries at least two ids.
FindNotFoundOrSeveral ==
    (last.op = "find_issue" /\ Len(last.arg) >= 1) =>
        /\ issues_dir.leaves = {} => last.res = "NotFound"
        /\ last.res = "MultipleFound" => Cardinality(last.ids) >= 2

\* the only issue of the shard the first two characters of the needle name
OnlyLeaf(needle) == IdsOfShard(SubSeq(needle, 1, 2))

\* C22 as stated: find_issue resolves every needle of two characters or more whose first
\* two characters name a shard holding exactly one issue directory.
FindInSingleLeafShardAlways ==
    (/\ last.op = "find_issue" /\ Len(last.arg) >= 2
     /\ Cardinality(OnlyLeaf(last.arg)) = 1) => last.res = "Ok"

\* C22 (amended): find_issue resolves a needle of two characters or more to the only issue
\* of the shard its first two characters name when the id of that issue starts with the
\* needle, whatever the length of the needle beyond two.
FindInSingleLeafShard ==
    (/\ last.op = "find_issue" /\ Len(last.arg) >= 2
     /\ Cardinality(OnlyLeaf(last.arg)) = 1
     /\ \A id \in OnlyLeaf(last.arg) :
           Len(last.arg) <= Len(id) /\ \A i \in 1..Len(last.arg) : id[i] = last.arg[i])
    => last.res = "Ok" /\ last.ids = OnlyLeaf(last.arg)

FindInSingleLeafShardWitness ==
    /\ last.op = "find_issue" /\ Len(last.arg) = 3
    /\ Cardinality(OnlyLeaf(last.arg)) = 1
    /\ last.res = "Ok" /\ last.ids = OnlyLeaf(last.arg)
    /\ Cardinality(issues_dir.leaves) = 2

----------------------------------------------------------------------------
(* Claims about create_issue, under SpecCreate *)

\* the description, the tags and the milestone create_issue was called with
CreatedWith == [description |-> last.arg[1], tags |-> last.arg[2], milestone |-> last.arg[3]]

\* C23: after a successful create_issue(d, T, m) the tags of the issue are the sorted list,
\* without duplicates, of T and open, its milestone is m, its description reads back as
\* d, and find_issue with the id gives the id.
CreateIssueStores ==
    (last.op = "create_issue" /\ last.res = "Ok") =>
        /\ tags(World(repo, 0), last.id) = Dedup(Sort(Append(CreatedWith.tags, OPEN)))
        /\ milestone(World(repo, 0), last.id) = CreatedWith.milestone
        /\ read(World(repo, 0), last.id, "description")
              = [ok |-> TRUE, text |-> CreatedWith.description]
        /\ find_issue(issues_dir, ShaText(last.id)) = Found(ShaText(last.id))

----------------------------------------------------------------------------
(* Claims about the close command, under SpecClose *)

\* the tags of issue id in repository r
TagsIn(r, id) == tags(World(r, 0), id)

\* the branch of r2 is one commit ahead of the branch of r1: a commit r1 does not hold,
\* whose first parent is the head of r1 and which merges the commits made in between
OneCollapsedCommit(r1, r2) ==
    /\ r2.head > Len(r1.commits)
    /\ Len(r2.commits[r2.head].parents) = 2
    /\ r2.commits[r2.head].parents[1] = r1.head

\* C24: the close command given one open issue, when it returns Ok, leaves the issue
\* without the tag open and with the tag closed, its other tags as they were (an issue
\* tagged open alone is tagged closed alone), and the branch one collapsed commit ahead;
\* given an issue already closed it finds NoChanges, rolls back, and leaves the head and
\* the tags of the issue as they were.
CloseOneIssue ==
    [][(cmd'.name = "close" /\ Len(cmd'.id) = 1 /\ cmd'.res = "Ok") =>
          LET id == cmd'.id[1]
              before == TagsIn(repo, id)
              after == TagsIn(repo', id)
          IN  /\ Contains(before, OPEN) =>
                    /\ Range(after) = (Range(before) \ {OPEN}) \cup {CLOSED}
                    /\ before = <<OPEN>> => after = <<CLOSED>>
                    /\ OneCollapsedCommit(repo, repo')
              /\ (~Contains(before, OPEN) /\ Contains(before, CLOSED)) =>
                    /\ CallsOf(cmd'.calls, {"close_issue"}) # {}
                    /\ \A i \in CallsOf(cmd'.calls, {"close_issue"}) :
                          cmd'.calls[i] = Call("close_issue", "NoChanges")
                    /\ CallsOf(cmd'.calls, {"rollback_transaction"}) # {}
                    /\ repo'.head = repo.head
                    /\ after = before]_vars

\* an open issue closed with uncommitted changes around, and then closed again
CloseOneIssueWitness ==
    /\ cmd.name = "close" /\ Len(cmd.id) = 1 /\ cmd.res = "Ok"
    /\ TagsIn(repo, cmd.id[1]) = <<CLOSED>>
    /\ cmd.calls = <<Call("start_transaction", "Ok"), GitCall("stash_almost_all", TRUE),
                     Call("close_issue", "NoChanges"),
                     Call("rollback_transaction", "Ok"), GitCall("reset_hard", TRUE),
                     GitCall("stash_pop", TRUE)>>
    /\ Len(repo.commits[repo.head].parents) = 2

\* the results of the calls of close_issue a command made
CloseResults(calls) == {calls[i][2] : i \in CallsOf(calls, {"close_issue"})}

\* C25: the close command given several issues.  When no close_issue failed, one at least
\* was applied and the command returns Ok, every issue given has the tag closed and not
\* the tag open, in the working tree and in the commit at the head, and the branch is one
\* merge commit ahead, through whose second parent every commit made by the command is
\* reached.  When a close_issue returned an error and the rollback of the command
\* succeeded, the head and the tags of every issue are what they were before the command.
CloseSeveralIssues ==
    [][(cmd'.name = "close" /\ Len(cmd'.id) >= 2) =>
          /\ (cmd'.res = "Ok" /\ "Applied" \in CloseResults(cmd'.calls)) =>
                /\ \A k \in 1..Len(cmd'.id) :
                      /\ Contains(TagsIn(repo', cmd'.id[k]), CLOSED)
                      /\ ~Contains(TagsIn(repo', cmd'.id[k]), OPEN)
                      /\ At(HeadTree(World(repo', 0)), PathOf(cmd'.id[k], "tags"))
                            = At(repo'.wt, PathOf(cmd'.id[k], "tags"))
                /\ OneCollapsedCommit(repo, repo')
                /\ repo'.head = Len(repo'.commits)
                /\ \A n \in (Len(repo.commits) + 1)..(repo'.head - 1) :
                      n \in Ancestors(repo'.commits, repo'.commits[repo'.head].parents[2])
          /\ (/\ "Err" \in CloseResults(cmd'.calls)
              /\ CallsOf(cmd'.calls, {"rollback_transaction"}) # {}
              /\ \A i \in CallsOf(cmd'.calls, {"rollback_transaction"}) :
                    cmd'.calls[i] = Call("rollback_transaction", "Ok")) =>
                /\ repo'.head = repo.head
                /\ \A id \in Issues(repo) : TagsIn(repo', id) = TagsIn(repo, id)]_vars

\* two open issues closed by one command, with uncommitted changes around
CloseSeveralIssuesWitness ==
    /\ cmd.name = "close" /\ Len(cmd.id) = 2 /\ cmd.id[1] # cmd.id[2] /\ cmd.res = "Ok"
    /\ CallsOf(cmd.calls, {"stash_pop"}) # {}
    /\ CloseResults(cmd.calls) = {"Applied"}
    /\ \A k \in 1..2 : ~Contains(TagsIn(repo, cmd.id[k]), OPEN)
    /\ Len(repo.commits[repo.head].parents) = 2

----------------------------------------------------------------------------
(* Claims about the resolution of the ids a command is given, under SpecResolve *)

\* C26: a close, tag, milestone set or milestone remove command one of whose ids does not
\* resolve returns the error without a call of start_transaction or of any write: the
\* repository (commits, head, index, working tree with the files of every issue, stash)
\* is what it was and the DataSource holds no transaction.
UnresolvedIdChangesNothing ==
    [][(\E i \in CallsOf(cmd'.calls, {"find_issue"}) : cmd'.calls[i][2] # "Ok") =>
          /\ cmd'.res = "Err"
          /\ CallsOf(cmd'.calls, {"start_transaction", "stash_almost_all"} \cup WriteCalls
                                    \cup EndCalls) = {}
          /\ repo' = repo
          /\ transaction' = None]_vars

\* close given an issue and, after it, a text that names none, the working tree dirty
UnresolvedIdWitness ==
    /\ cmd.name = "close" /\ cmd.res = "Err"
    /\ cmd.calls = <<Call("find_issue", "Ok"), Call("find_issue", "NotFound")>>
    /\ Changes(World(repo, 0)) # {}

----------------------------------------------------------------------------
(* Claims about the milestone of an issue, under SpecStore *)

\* C28: after an applied add_milestone(id, m) the milestone of the issue is m, whatever it
\* was before; after an applied remove_milestone(id) the milestone file does not exist
\* and the issue has no milestone.
MilestoneSetAndUnset ==
    /\ (last.op = "add_milestone" /\ last.res = "Applied") =>
          milestone(World(repo, 0), last.id) = {last.arg}
    /\ (last.op = "remove_milestone" /\ last.res = "Applied") =>
          /\ PathOf(last.id, "milestone") \notin DOMAIN repo.wt
          /\ milestone(World(repo, 0), last.id) = {}

----------------------------------------------------------------------------
(* Claims about the status of an issue, under SpecStore *)

\* C29: an issue is reported closed exactly when its tags do not hold the tag open.
ClosedIffNotOpen ==
    \A id \in Issues(repo) :
        is_closed(World(repo, 0), id) <=> ~Contains(tags(World(repo, 0), id), OPEN)

----------------------------------------------------------------------------
(* Claims about the list command, under SpecList *)

\* the tags an issue must have to be listed: those given, and open unless all is given
MustHave == Range(last.arg[2]) \cup (IF last.arg[1] THEN {} ELSE {OPEN})

\* C30: the list filter keeps an issue exactly when its tags hold every tag it must have
\* (those given, and open unless all is given) and none of the tags it must not have, and
\* its milestone is the one given, is absent when issues without milestone are asked for,
\* or is anything when neither is given.
ListKeepsMatching ==
    last.op = "list" =>
        \A id \in Issues(repo) :
            id \in last.ids <=>
                /\ MustHave \subseteq Range(TagsIn(repo, id))
                /\ Range(last.arg[3]) \cap Range(TagsIn(repo, id)) = {}
                /\ IF last.arg[5] THEN milestone(World(repo, 0), id) = {}
                   ELSE IF last.arg[4] # {} THEN milestone(World(repo, 0), id) = last.arg[4]
                   ELSE TRUE

\* of two issues with the tag f asked for, without --all, the one that is closed is
\* left out and the other kept
ListKeepsMatchingWitness ==
    /\ last.op = "list" /\ ~last.arg[1] /\ last.arg[3] = <<>> /\ last.arg[4] # {}
    /\ Cardinality(last.ids) = 1
    /\ \E id \in Issues(repo) \ last.ids :
          /\ milestone(World(repo, 0), id) = last.arg[4]
          /\ Range(last.arg[2]) \subseteq Range(TagsIn(repo, id))

----------------------------------------------------------------------------
(* C31: a read of an Issue field panics exactly when no cache step of that  *)
(* field has succeeded on that Issue before it, and it then gives no value; *)
(* in the commands list, milestone list and show every read follows a       *)
(* successful cache step of its field on its Issue, so that none panics.     *)

ReadSteps(steps) == {i \in 1..Len(steps) : steps[i][1] = "read"}

CachedBefore(steps, i) ==
    \E j \in 1..(i - 1) : steps[j] = <<"cache", steps[i][2], steps[i][3], "Ok">>

IssueReadsCached ==
    /\ \A i \in ReadSteps(cmd.calls) :
          /\ cmd.calls[i][4] = "panic" <=> ~CachedBefore(cmd.calls, i)
          /\ cmd.calls[i][4] = "panic" => cmd.res = "panic" /\ i = Len(cmd.calls)
    /\ cmd.name \in {"list", "milestone list", "show"} =>
          \A i \in ReadSteps(cmd.calls) : CachedBefore(cmd.calls, i) /\ cmd.calls[i][4] = "Ok"

\* the list command has dropped an Issue whose cache step failed and has read a field of
\* another
IssueReadsWitness ==
    /\ cmd.name = "list"
    /\ \E j \in 1..Len(cmd.calls) : cmd.calls[j][1] = "cache" /\ cmd.calls[j][4] = "Err"
    /\ ReadSteps(cmd.calls) # {}

----------------------------------------------------------------------------
(* C32: finish_transaction pops the stash only as its last step, after a    *)
(* reset and a merge that both succeeded, and rollback_transaction only     *)
(* after a reset that succeeded; when the reset or the merge fails, that is *)
(* the last step of the call, no stash pop is made and the stash list is    *)
(* left as it was.                                                          *)

PopsOf(git) == {i \in 1..Len(git) : git[i][1] = "stash_pop"}

StepsBeforePop(op) ==
    IF op = "finish_transaction" THEN <<GitCall("reset_hard", TRUE), GitCall("merge", TRUE)>>
    ELSE <<GitCall("reset_hard", TRUE)>>

StashPoppedLast ==
    [][(last'.op \in {"finish_transaction", "rollback_transaction"} /\ transaction # None) =>
          LET git == last'.git
          IN  /\ PopsOf(git) # {} =>
                    /\ transaction[1].stash_before
                    /\ PopsOf(git) = {Len(git)}
                    /\ SubSeq(git, 1, Len(git) - 1) = StepsBeforePop(last'.op)
              /\ FailedSteps' \cap {"reset_hard", "merge"} # {} =>
                    /\ PopsOf(git) = {}
                    /\ git[Len(git)][2] = "Err"
                    /\ \A i \in 1..(Len(git) - 1) : git[i][2] = "Ok"
                    /\ repo'.stash = repo.stash
              /\ (transaction[1].stash_before /\ FailedSteps' \cap {"reset_hard", "merge"} = {})
                    => PopsOf(git) # {}]_vars

\* a rollback whose reset failed has left the stash of the start in place
StashPoppedLastWitness ==
    /\ last.op = "rollback_transaction" /\ last.res = "ResetUnstash"
    /\ last.git = <<GitCall("reset_hard", FALSE)>>
    /\ Len(repo.stash) = txn.stash + 1

----------------------------------------------------------------------------
(* C33: when finish_transaction or finish_transaction_without_merge returns *)
(* an error, the DataSource holds the transaction it held before the call,  *)
(* with the same start_sha and stash_before, and the call has made each of  *)
(* its git steps at most once; the transaction is cleared when the call     *)
(* returns Ok.                                                              *)

FinishCalls == {"finish_transaction", "finish_transaction_without_merge"}

StepNames(git) == [i \in 1..Len(git) |-> git[i][1]]

FailedFinishKeepsTransaction ==
    [][(last'.op \in FinishCalls /\ last'.res # "panic") =>
          /\ last'.res # "Ok" =>
                /\ transaction # None
                /\ transaction' = transaction
                /\ \A i, j \in 1..Len(last'.git) :
                      StepNames(last'.git)[i] = StepNames(last'.git)[j] => i = j
                /\ last'.git[Len(last'.git)][2] = "Err"
          /\ last'.res = "Ok" => transaction' = None]_vars

\* finish_transaction_without_merge has failed to pop the stash and the transaction is
\* still the one that was started
FailedFinishWitness ==
    /\ last.op = "finish_transaction_without_merge" /\ last.res = "Unstash"
    /\ transaction # None /\ transaction[1].stash_before
    /\ transaction[1].start_sha = txn.base

----------------------------------------------------------------------------
(* Claims about the property writes, under SpecWrite *)

WriteCallFiles ==
    [add_tag |-> "tags", remove_tag |-> "tags", add_milestone |-> "milestone",
     remove_milestone |-> "milestone", edit_description |-> "description"]

\* the property file the last call names
NamedFile(l) == PathOf(l.id, WriteCallFiles[l.op])

\* the paths where two trees differ
Differ(t1, t2) == {p \in DOMAIN t1 \cup DOMAIN t2 : At(t1, p) # At(t2, p)}

\* C34: a property write that is applied (Ok for a description) adds exactly one commit,
\* the new head, whose parent is the head before and whose tree differs from the parent's
\* in the property file written and in nothing else; a write that returns NoChanges adds
\* no commit and leaves the head.
WriteCommitsOneFile ==
    [][(last'.op \in DOMAIN WriteCallFiles) =>
          /\ last'.res \in {"Applied", "Ok"} =>
                /\ repo'.commits = Append(repo.commits, repo'.commits[Len(repo.commits) + 1])
                /\ repo'.head = Len(repo.commits) + 1
                /\ repo'.commits[repo'.head].parents = <<repo.head>>
                /\ Differ(repo'.commits[repo'.head].tree, repo.commits[repo.head].tree)
                      = {NamedFile(last')}
          /\ last'.res = "NoChanges" =>
                repo'.commits = repo.commits /\ repo'.head = repo.head]_vars

----------------------------------------------------------------------------
(* C35: while a transaction is open and when it ends, no commit made since  *)
(* its start_transaction holds a change that the user had left uncommitted, *)
(* in the working tree or staged, in a file outside the tracker: in every   *)
(* such commit the file is as in the commit the transaction started from.    *)

\* the files outside the tracker that had uncommitted changes at the start
UserPaths == {ch[1] : ch \in {c \in txn.changes : c[1][1] = 0}}

NoUserChangeCommitted ==
    [][(transaction # None /\ UserPaths # {}) =>
          \A i \in (txn.base + 1)..Len(repo'.commits), p \in UserPaths :
              At(repo'.commits[i].tree, p) = At(repo.commits[transaction[1].start_sha].tree, p)]_vars

\* a transaction started with staged changes has been finished by a merge of the commit
\* of a property, and the user's changes are back in the working tree
NoUserChangeWitness ==
    /\ last.op = "finish_transaction" /\ last.res = "Ok"
    /\ UserPaths # {} /\ txn.applied >= 1
    /\ Len(repo.commits) >= txn.base + 2
    /\ Changes(World(repo, 0)) = txn.changes
    /\ \A p \in UserPaths : At(repo.commits[repo.head].tree, p) # At(repo.wt, p)

\* the marker commit of an issue has been made in a transaction started with such changes
MarkerCommitWitness ==
    /\ last.op = "create_issue" /\ last.res = "Ok"
    /\ transaction # None /\ UserPaths # {}
    /\ Len(repo.commits) >= txn.base + 3

----------------------------------------------------------------------------
(* C36: for an identifier of three characters or more and any root,         *)
(* Id::path is root/issues/<first two characters>/<the rest>, Id::from of   *)
(* that path is the identifier, and no other identifier has that path.       *)

IdPathRoundTrip ==
    (last.op = "path" /\ Len(last.arg[1]) >= 3) =>
        LET id == last.arg[1]
            root == last.arg[2]
        IN  /\ last.arg[3] = root \o <<ISSUES, SubSeq(id, 1, 2), SubSeq(id, 3, Len(id))>>
            /\ last.arg[4] = id
            /\ \A other \in LongIds :
                  (Len(other) >= 3 /\ other # id) => IdPathIn(other, root) # last.arg[3]

\* the path of an identifier of four characters below a root of two directories
IdPathWitness ==
    /\ last.op = "path" /\ Len(last.arg[1]) = 4 /\ Len(last.arg[2]) = 2
    /\ Len(last.arg[3]) = 5 /\ last.arg[4] = last.arg[1]

----------------------------------------------------------------------------
(* C37: after any sequence of add_tag and remove_tag of non-empty tags on a *)
(* newly created issue, the lines of the tags file are the tags that        *)
(* tags(id) returns, none of them empty, and the file ends with a newline.  *)

TagsFileHoldsTags ==
    \A id \in Issues(repo) :
        <<>> \notin expected =>
            LET text == repo.wt[PathOf(id, "tags")]
            IN  /\ Lines(text) = tags(World(repo, 0), id)
                /\ \A i \in 1..Len(Lines(text)) : Lines(text)[i] # <<>>
                /\ text = Join(tags(World(repo, 0), id), NL) \o NL

----------------------------------------------------------------------------
(* Further claims about find_issue, under SpecFind *)

\* C38: an id find_issue returns, for a needle of one character or more, starts with the
\* needle, and the directory of the issue of that id exists.
FindResultHasPrefix ==
    (last.op = "find_issue" /\ Len(last.arg) >= 1 /\ last.res = "Ok") =>
        \A id \in last.ids :
            /\ Len(last.arg) <= Len(id) /\ \A i \in 1..Len(last.arg) : id[i] = last.arg[i]
            /\ IdPath(id) \in issues_dir.leaves

\* C39: find_issue returns for every needle, the empty string and needles naming a shard
\* that does not exist included: exactly one id, or NotFound, or MultipleFound.
FindIssueTotal ==
    last.op = "find_issue" =>
        \/ last.res = "Ok" /\ Cardinality(last.ids) = 1
        \/ last.res \in {"NotFound", "MultipleFound"}

----------------------------------------------------------------------------
(* The frame of a property write, under SpecWrite *)

\* C40: add_tag, remove_tag, add_milestone, remove_milestone and edit_description, whatever
\* they return, change in the working tree at most the property file they name: every
\* other property file of the issue, every file of every other issue and every file
\* outside the tracker is as before the call.
WriteChangesNamedFileOnly ==
    [][last'.op \in DOMAIN WriteCallFiles =>
          Differ(repo'.wt, repo.wt) \subseteq {NamedFile(last')}]_vars

\* a write has failed after it changed its file: the working tree differs from the head
\* commit in that file alone, and the other files of the issue and of the other issue exist
WriteChangesWitness ==
    /\ last.op \in DOMAIN WriteCallFiles /\ last.res = "Err"
    /\ Differ(repo.wt, repo.commits[repo.head].tree) = {NamedFile(last)}
    /\ \E id \in Issues(repo) \ {last.id} : PathOf(id, "tags") \in DOMAIN repo.wt
    /\ PathOf(last.id, "description") \in DOMAIN repo.wt
    /\ NamedFile(last) # PathOf(last.id, "description")
====
